---- MODULE Spec2Model ----
(***************************************************************************)
(* A model of package sqliteinit (github.com/mdhender/sqliteinit): the     *)
(* lifecycle operations Open, Create, Delete, Status (sqliteinit.go) and   *)
(* the migration runner migrate / applySchemaInit / applyMigration /       *)
(* listMigrationFiles (migrate.go) together with schema.sql.               *)
(*                                                                         *)
(* Spec has the calls made on one database with every collection of        *)
(* scripts; SpecLifecycle has the calls made on any location, from any     *)
(* state of the files, under any value of the production variable, with    *)
(* the deadline of the migration run passing at any point;                 *)
(* SpecConcurrent has two processes that run Open on one persistent file   *)
(* at the same time; SpecInconsistent starts on a database whose           *)
(* schema.version row is missing or is no integer.                         *)
(*                                                                         *)
(* Text is a sequence of byte codes so that byte-wise comparison, the     *)
(* file-name pattern, strconv.Atoi and strconv.Itoa are computed and not   *)
(* assumed. A file name is held in the state as a string; Bytes gives the  *)
(* bytes it is spelled with.                                               *)
(***************************************************************************)
EXTENDS Integers, Sequences, FiniteSets, TLC

(***************************************************************************)
(* Bytes and text                                                          *)
(***************************************************************************)

\* ASCII codes used by the file names and config values below.
Zero == 48
Dot == 46
Underscore == 95

IsDigit(b) == b >= Zero /\ b <= Zero + 9

\* the trailing ".sql" of reMigrationFile
SqlExt == <<Dot, 115, 113, 108>>

\* number of digits demanded by reMigrationFile: \d{14}
PrefixLen == 14

\* Go's string comparison a < b: byte-wise lexicographic order
RECURSIVE StrLess(_, _)
StrLess(a, b) ==
  IF b = <<>> THEN FALSE
  ELSE IF a = <<>> THEN TRUE
  ELSE IF Head(a) # Head(b) THEN Head(a) < Head(b)
  ELSE StrLess(Tail(a), Tail(b))

\* strconv.Atoi on a string of decimal digits (the only input the pattern
\* lets through); any other text is a syntax error, reported as -1.
RECURSIVE AtoiAcc(_, _)
AtoiAcc(s, acc) ==
  IF s = <<>> THEN acc
  ELSE AtoiAcc(Tail(s), acc * 10 + (Head(s) - Zero))

AtoiOk(s) == s # <<>> /\ \A i \in 1..Len(s) : IsDigit(s[i])

Atoi(s) == IF AtoiOk(s) THEN AtoiAcc(s, 0) ELSE -1

\* strconv.Itoa for a non-negative integer
RECURSIVE Itoa(_)
Itoa(n) ==
  IF n < 10 THEN <<Zero + n>>
  ELSE Append(Itoa(n \div 10), Zero + (n % 10))

\* reMigrationFile = ^(\d{14})_(.+)\.sql$ : does name match
MatchesMigrationFile(name) ==
  /\ Len(name) >= PrefixLen + 1 + 1 + Len(SqlExt)
  /\ \A i \in 1..PrefixLen : IsDigit(name[i])
  /\ name[PrefixLen + 1] = Underscore
  /\ SubSeq(name, Len(name) - Len(SqlExt) + 1, Len(name)) = SqlExt

\* matches[1] and matches[2] of reMigrationFile.FindStringSubmatch
MatchPrefix(name) == SubSeq(name, 1, PrefixLen)
MatchComment(name) == SubSeq(name, PrefixLen + 2, Len(name) - Len(SqlExt))

(***************************************************************************)
(* The migration collection (cfg.Migrations, an fs.FS)                     *)
(***************************************************************************)

\* "0000000000000d" : a 14-digit timestamp prefix whose value is d
Stamp(d) == [i \in 1..PrefixLen |-> IF i = PrefixLen THEN Zero + d ELSE Zero]

\* "0000000000000d_c.sql"
ScriptName(d, c) == Stamp(d) \o <<Underscore, c>> \o SqlExt

\* the file names that occur in collections
N0 == "00000000000000_z.sql"
N1 == "00000000000001_a.sql"
N2 == "00000000000002_x.sql"
N3 == "00000000000003_b.sql"
N3c == "00000000000003_c.sql"   \* same id as N3
N4 == "00000000000004_d.sql"
NX == "0000000000005_e.sql"     \* 13 digits: not a migration file name
ND == "00000000000006_f.sql"    \* the name of a sub-directory

\* the bytes a file name is spelled with
Bytes(name) ==
  CASE name = N0 -> ScriptName(0, 122)
    [] name = N1 -> ScriptName(1, 97)
    [] name = N2 -> ScriptName(2, 120)
    [] name = N3 -> ScriptName(3, 98)
    [] name = N3c -> ScriptName(3, 99)
    [] name = N4 -> ScriptName(4, 100)
    [] name = NX -> Tail(ScriptName(5, 101))
    [] name = ND -> ScriptName(6, 102)
    [] name = "schema.sql" -> <<115, 99, 104, 101, 109, 97, 46, 115, 113, 108>>

\* what the SQL text of a script does when it is executed:
\*   "ok"     every statement succeeds
\*   "bad"    a statement fails after earlier statements took effect
\*   "delver" succeeds, and deletes the schema.version row of config
SqlOf(name) ==
  IF name = N2 THEN "bad"
  ELSE IF name = N4 THEN "delver"
  ELSE "ok"

\* directory entries (fs.DirEntry) a collection is made of
Entry(name, isDir) == [name |-> name, isDir |-> isDir]

\* well-formed scripts with distinct ids and SQL that succeeds
PlainEntries == {Entry(n, FALSE) : n \in {N1, N3}}

\* entries that stand for the special cases: id 0, SQL that fails, a
\* second file of id 3, SQL that removes schema.version, a file that is no
\* migration script, a directory
OddEntries == {Entry(n, FALSE) : n \in {N0, N2, N3c, N4, NX}} \cup {Entry(ND, TRUE)}

AllEntries == PlainEntries \cup OddEntries

\* largest number of odd entries in a collection
MaxOdd == 1

\* stands for a nil fs.FS: no file has the empty name
NoFS == {[name |-> "", isDir |-> FALSE]}

\* the collections a caller may pass as cfg.Migrations
Collections ==
  {P \cup O : P \in SUBSET PlainEntries,
              O \in {Q \in SUBSET OddEntries : Cardinality(Q) <= MaxOdd}}

\* the orders in which fs.ReadDir may list a collection
Listings(S) ==
  {q \in [1..Cardinality(S) -> S] : \A i, j \in DOMAIN q : i # j => q[i] # q[j]}

\* migrationScript
Script(name) ==
  [ID |-> Atoi(MatchPrefix(Bytes(name))), Comment |-> MatchComment(Bytes(name)),
   Path |-> name]

\* sort.Slice(scripts, func(i, j) { return scripts[i].Path < scripts[j].Path })
RECURSIVE InsertByPath(_, _)
InsertByPath(sorted, s) ==
  IF sorted = <<>> THEN <<s>>
  ELSE IF StrLess(Bytes(s.Path), Bytes(Head(sorted).Path)) THEN <<s>> \o sorted
  ELSE <<Head(sorted)>> \o InsertByPath(Tail(sorted), s)

\* no sort: the scripts stay in the order of the listing
SortByPath_None(scripts) == scripts

RECURSIVE SortByPath(_)
SortByPath(scripts) ==
  IF scripts = <<>> THEN <<>>
  ELSE InsertByPath(SortByPath(Tail(scripts)), Head(scripts))

\* a loop that passes over a file whose id was seen before
RECURSIVE ListLoop_Skip(_, _, _)
ListLoop_Skip(entries, i, scripts) ==
  IF i > Len(entries) THEN [err |-> "", scripts |-> scripts, dup |-> <<>>]
  ELSE LET e == entries[i] IN
    IF e.isDir \/ ~MatchesMigrationFile(Bytes(e.name))
      THEN ListLoop_Skip(entries, i + 1, scripts)
    ELSE IF \E k \in 1..Len(scripts) : scripts[k].ID = Script(e.name).ID
      THEN ListLoop_Skip(entries, i + 1, scripts)
    ELSE ListLoop_Skip(entries, i + 1, Append(scripts, Script(e.name)))

\* the loop of listMigrationFiles over entries[i..]: scripts collected so far
\* and seenIDs (the scripts seen, by id) are carried along
RECURSIVE ListLoop(_, _, _)
ListLoop(entries, i, scripts) ==
  IF i > Len(entries) THEN [err |-> "", scripts |-> scripts, dup |-> <<>>]
  ELSE LET e == entries[i] IN
    IF e.isDir THEN ListLoop(entries, i + 1, scripts)
    ELSE IF ~MatchesMigrationFile(Bytes(e.name)) THEN ListLoop(entries, i + 1, scripts)
    ELSE IF ~AtoiOk(MatchPrefix(Bytes(e.name)))
      THEN [err |-> "invalid migration id", scripts |-> <<>>, dup |-> <<>>]
    ELSE LET s == Script(e.name)
             seen == {k \in 1..Len(scripts) : scripts[k].ID = s.ID}
         IN IF seen # {}
              THEN [err |-> "duplicate migration ID", scripts |-> <<>>,
                    dup |-> <<scripts[CHOOSE k \in seen : TRUE].Path, e.name>>]
              ELSE ListLoop(entries, i + 1, Append(scripts, s))

\* listMigrationFiles on the listing fs.ReadDir returned
listMigrationFiles(entries) ==
  LET r == ListLoop(entries, 1, <<>>) IN
  IF r.err # "" THEN r
  ELSE [r EXCEPT !.scripts = SortByPath(r.scripts)]

(***************************************************************************)
(* The database: schema.sql and the statements the package executes        *)
(***************************************************************************)

ConfigKeys == {"schema.version", "app.version", "db.created_at"}

\* a database without the infrastructure tables (a new or empty file, a
\* new in-memory database)
EmptyDB ==
  [tables |-> FALSE,    \* schema_migrations and config exist
   config |-> [k \in {} |-> <<>>],  \* config rows: key -> value
   migs |-> <<>>,       \* schema_migrations rows [id, comment, path], as inserted
   effects |-> [n \in {} |-> 0],    \* how often the whole SQL of a script took effect
   partial |-> {}]      \* scripts of which only leading statements took effect

\* result of a statement: err = "" on success, d the database after it,
\* rows the number of rows affected
Done(d, rows) == [err |-> "", d |-> d, rows |-> rows]
Failed(err, d) == [err |-> err, d |-> d, rows |-> 0]

\* a schema.sql that makes the tables anew when they are there
ExecSchemaSql_Again(d) ==
  Done([d EXCEPT !.tables = TRUE,
                 !.config = [k \in ConfigKeys |->
                               IF k = "schema.version" THEN <<Zero>> ELSE <<>>],
                 !.migs = <<>>], 3)

\* schema.sql: CREATE TABLE schema_migrations, CREATE TABLE config and the
\* three initial config rows
ExecSchemaSql(d) ==
  IF d.tables THEN Failed("table already exists", d)
  ELSE Done([d EXCEPT !.tables = TRUE,
                      !.config = [k \in ConfigKeys |->
                                    IF k = "schema.version" THEN <<Zero>> ELSE <<>>],
                      !.migs = <<>>], 3)

\* an INSERT into a schema_migrations without PRIMARY KEY and UNIQUE
InsertMigration_NoKey(d, id, comment, path) ==
  IF ~d.tables THEN Failed("no such table", d)
  ELSE Done([d EXCEPT !.migs = Append(@, [id |-> id, comment |-> comment, path |-> path])], 1)

\* an INSERT into a schema_migrations whose only key is the path
InsertMigration_PathKey(d, id, comment, path) ==
  IF ~d.tables THEN Failed("no such table", d)
  ELSE IF \E i \in DOMAIN d.migs : d.migs[i].path = path
    THEN Failed("constraint failed", d)
  ELSE Done([d EXCEPT !.migs = Append(@, [id |-> id, comment |-> comment, path |-> path])], 1)

\* INSERT INTO schema_migrations (id, comment, path, ...): id is the PRIMARY
\* KEY and path is UNIQUE
InsertMigration(d, id, comment, path) ==
  IF ~d.tables THEN Failed("no such table", d)
  ELSE IF \E i \in DOMAIN d.migs : d.migs[i].id = id \/ d.migs[i].path = path
    THEN Failed("constraint failed", d)
  ELSE Done([d EXCEPT !.migs = Append(@, [id |-> id, comment |-> comment, path |-> path])], 1)

\* UPDATE config SET value = ? WHERE key = ?
UpdateConfig(d, key, value) ==
  IF ~d.tables THEN Failed("no such table", d)
  ELSE IF key \in DOMAIN d.config
    THEN Done([d EXCEPT !.config = [@ EXCEPT ![key] = value]], 1)
  ELSE Done(d, 0)

\* the effects of a script's SQL are counted once more
AddEffect(effects, name) ==
  [n \in DOMAIN effects \cup {name} |->
     IF n = name THEN (IF n \in DOMAIN effects THEN effects[n] + 1 ELSE 1)
     ELSE effects[n]]

\* the SQL text of a user script, executed as one batch
ExecScript(d, name) ==
  CASE SqlOf(name) = "ok" -> Done([d EXCEPT !.effects = AddEffect(@, name)], 0)
    [] SqlOf(name) = "bad" -> Failed("exec", [d EXCEPT !.partial = @ \cup {name}])
    [] SqlOf(name) = "delver" ->
         Done([d EXCEPT !.effects = AddEffect(@, name),
                        !.config = [k \in DOMAIN @ \ {"schema.version"} |-> @[k]]], 1)

\* a version read that takes a missing row for a missing table and text
\* that is no integer for 0
fetchSchemaVersion_Lenient(d) ==
  IF ~d.tables \/ "schema.version" \notin DOMAIN d.config
    THEN [err |-> "", version |-> -1]
  ELSE IF ~AtoiOk(d.config["schema.version"]) THEN [err |-> "", version |-> 0]
  ELSE [err |-> "", version |-> Atoi(d.config["schema.version"])]

\* a version read that always finds no config table
fetchSchemaVersion_Nil(d) == [err |-> "", version |-> -1]

\* fetchSchemaVersion: version is -1 for the nil result (no config table)
fetchSchemaVersion(d) ==
  IF ~d.tables THEN [err |-> "", version |-> -1]
  ELSE IF "schema.version" \notin DOMAIN d.config
    THEN [err |-> "fetch schema.version", version |-> -1]
  ELSE IF ~AtoiOk(d.config["schema.version"])
    THEN [err |-> "invalid schema.version", version |-> -1]
  ELSE [err |-> "", version |-> Atoi(d.config["schema.version"])]

\* appliedPaths as built by a loop that never fills the map
appliedPaths_Empty(d) == {}

\* fetchAppliedMigrations followed by the appliedPaths map of migrate
appliedPaths(d) == {d.migs[i].path : i \in DOMAIN d.migs}

\* the rows of schema_migrations in the order of their paths
RECURSIVE InsertRow(_, _)
InsertRow(sorted, m) ==
  IF sorted = <<>> THEN <<m>>
  ELSE IF StrLess(Bytes(m.path), Bytes(Head(sorted).path)) THEN <<m>> \o sorted
  ELSE <<Head(sorted)>> \o InsertRow(Tail(sorted), m)

RECURSIVE OrderByPath(_)
OrderByPath(rows) ==
  IF rows = <<>> THEN <<>>
  ELSE InsertRow(OrderByPath(Tail(rows)), Head(rows))

\* fetchAppliedMigrations: SELECT ... FROM schema_migrations ORDER BY path,
\* nothing when there is no such table
fetchAppliedMigrations(d) == IF d.tables THEN OrderByPath(d.migs) ELSE <<>>

\* MigrationStatus{}, the zero value
NoStatus ==
  [IsInitialized |-> FALSE, SchemaVersion |-> 0, Applied |-> <<>>, Pending |-> <<>>]

\* a status that reports every discovered script as pending
PendingPaths_All(scripts, applied) == [i \in DOMAIN scripts |-> scripts[i].Path]

\* the paths of the scripts that are not among the applied rows, in the
\* order of the scripts
PendingPaths(scripts, applied) ==
  LET paths == {applied[i].path : i \in DOMAIN applied}
      IsPending(s) == s.Path \notin paths
      pending == SelectSeq(scripts, IsPending)
  IN [i \in DOMAIN pending |-> pending[i].Path]

\* getStatus on database d; migrations tells whether cfg.Migrations is
\* set, and listed is what listMigrationFiles returns for it
getStatus(d, migrations, listed) ==
  LET v == fetchSchemaVersion(d) IN
  IF v.err # "" THEN [err |-> v.err, status |-> NoStatus]
  ELSE IF v.version = -1 THEN [err |-> "", status |-> NoStatus]
  ELSE LET applied == fetchAppliedMigrations(d)
           status == [IsInitialized |-> TRUE, SchemaVersion |-> v.version,
                      Applied |-> applied, Pending |-> <<>>]
       IN IF ~migrations THEN [err |-> "", status |-> status]
          ELSE IF listed.err # "" THEN [err |-> listed.err, status |-> NoStatus]
          ELSE [err |-> "",
                status |-> [status EXCEPT !.Pending = PendingPaths(listed.scripts, applied)]]

\* a commit that leaves the rows of config out of the transaction
Commit_RecordsOnly(d, t) == IF d.tables THEN [t EXCEPT !.config = d.config] ELSE t

\* tx.Commit(): the statements of the transaction t become the database
Commit(d, t) == t

\* a rollback that keeps what the transaction did
Rollback_Keep(d, t) == t

\* defer tx.Rollback() after a failure: the database stays as it was
Rollback(d, t) == d

(***************************************************************************)
(* The file system and the configuration of a call                         *)
(***************************************************************************)

MemPath == ":memory:"
DiskPath == "/data/app.db"

\* other locations a call can name: a relative path, a path with another
\* extension, a path in a directory that does not exist, a relative path
\* with another extension
RelPath == "data/app.db"
ExtPath == "/data/app.sqlite"
OrphanPath == "/none/app.db"
BadPath == "app.txt"

\* the paths of the model that start with "file::memory:"
MemUris == {"file::memory:?cache=shared"}

Paths == {MemPath, DiskPath, RelPath, ExtPath, OrphanPath, BadPath} \cup MemUris

\* the bytes of a path
PathBytes(path) ==
  CASE path = MemPath -> <<58, 109, 101, 109, 111, 114, 121, 58>>
    [] path = DiskPath -> <<47, 100, 97, 116, 97, 47, 97, 112, 112, 46, 100, 98>>
    [] path = RelPath -> <<100, 97, 116, 97, 47, 97, 112, 112, 46, 100, 98>>
    [] path = ExtPath -> <<47, 100, 97, 116, 97, 47, 97, 112, 112, 46, 115, 113, 108, 105, 116, 101>>
    [] path = OrphanPath -> <<47, 110, 111, 110, 101, 47, 97, 112, 112, 46, 100, 98>>
    [] path = BadPath -> <<97, 112, 112, 46, 116, 120, 116>>
    [] path = "file::memory:?cache=shared" ->
         <<102, 105, 108, 101, 58, 58, 109, 101, 109, 111, 114, 121, 58,
           63, 99, 97, 99, 104, 101, 61, 115, 104, 97, 114, 101, 100>>

\* strings.HasPrefix
HasPrefix(s, prefix) ==
  Len(s) >= Len(prefix) /\ SubSeq(s, 1, Len(prefix)) = prefix

\* "file::memory:"
MemPrefix == <<102, 105, 108, 101, 58, 58, 109, 101, 109, 111, 114, 121, 58>>

\* a test for ":memory:" alone
isMemoryPath_Exact(path) == path = MemPath

\* path == ":memory:" || strings.HasPrefix(path, "file::memory:")
isMemoryPath(path) == path = MemPath \/ HasPrefix(PathBytes(path), MemPrefix)

\* the in-memory paths of the model
MemoryPaths == {p \in Paths : isMemoryPath(p)}

\* Config.isMemory, and the same test at the head of Delete
isMemory(path) == path \in MemoryPaths

\* the database file and its WAL sidecar files, by suffix
Suffixes == {"", "-shm", "-wal"}
DeleteOrder == <<"", "-shm", "-wal">>

\* what os.Stat finds at a name: nothing, a regular file, a directory, or
\* some other kind of file
FileKinds == {"absent", "regular", "dir", "other"}

\* a check that finds no file anywhere
fileExists_Never(kind) == FALSE

\* a check that finds a file everywhere
fileExists_Always(kind) == TRUE

fileExists(kind) == kind \in {"regular", "dir"}
isDirectory(kind) == kind = "dir"
isRegularFile(kind) == kind = "regular"

Slash == 47

\* ".db"
DbExt == <<46, 100, 98>>

\* the last position of byte ch in b, 0 if there is none
LastIndex(b, ch) ==
  LET S == {i \in DOMAIN b : b[i] = ch} IN
  IF S = {} THEN 0 ELSE CHOOSE i \in S : \A j \in S : j <= i

\* filepath.IsAbs on a system with "/" as the separator
IsAbs(b) == Len(b) > 0 /\ b[1] = Slash

\* filepath.Ext: from the last dot of the last element of the path
Ext(b) ==
  LET d == LastIndex(b, Dot) IN
  IF d > LastIndex(b, Slash) THEN SubSeq(b, d, Len(b)) ELSE <<>>

\* filepath.Dir of a clean path: all but the last element
Dir(b) ==
  LET s == LastIndex(b, Slash) IN
  IF s = 0 THEN <<Dot>>
  ELSE IF s = 1 THEN <<Slash>>
  ELSE SubSeq(b, 1, s - 1)

\* the directories there are: "/", "." and "/data"
Directories == {<<Slash>>, <<Dot>>, <<47, 100, 97, 116, 97>>}

\* what os.Stat finds at the parent of the path with bytes b
ParentKind(b) == IF Dir(b) \in Directories THEN "dir" ELSE "absent"

\* IsAbs, Ext and the kind of the parent, worked out once for each path
PathInfo ==
  [p \in Paths |->
     [abs |-> IsAbs(PathBytes(p)), ext |-> Ext(PathBytes(p)),
      parent |-> ParentKind(PathBytes(p))]]

\* what os.Stat finds at path + x: files are the files at DiskPath, and
\* there is no file at the other paths
Stat(path, x, files) == IF path = DiskPath THEN files[x] ELSE "absent"

\* rules tested in another order: the extension before the rest
validatePersistentPath_ExtFirst(path, files) ==
  IF PathInfo[path].ext # DbExt THEN "expected .db extension"
  ELSE IF ~PathInfo[path].abs THEN "persistent database path must be absolute"
  ELSE IF isDirectory(Stat(path, "", files)) THEN "path is a directory"
  ELSE IF ~isDirectory(PathInfo[path].parent) THEN "parent directory does not exist"
  ELSE ""

\* validatePersistentPath: "" when the path is acceptable
validatePersistentPath(path, files) ==
  IF ~PathInfo[path].abs THEN "persistent database path must be absolute"
  ELSE IF PathInfo[path].ext # DbExt THEN "expected .db extension"
  ELSE IF isDirectory(Stat(path, "", files)) THEN "path is a directory"
  ELSE IF ~isDirectory(PathInfo[path].parent) THEN "parent directory does not exist"
  ELSE ""

\* values of the environment variable named by cfg.ProductionEnvVar
EnvValues == {"", "Production"}

\* the value of the variable with cfg.AllowMemoryInProduction at a call:
\* the permission is only given where the variable is set
Guards == {g \in EnvValues \X BOOLEAN : g[1] # "" \/ ~g[2]}

\* more values of the variable: other spellings of "production", and
\* values that are not that word
WideEnvValues == EnvValues \cup {"production", "PRODUCTION", "prod", "productions"}

\* the bytes of a value of the variable
EnvBytes(env) ==
  CASE env = "" -> <<>>
    [] env = "production" -> <<112, 114, 111, 100, 117, 99, 116, 105, 111, 110>>
    [] env = "Production" -> <<80, 114, 111, 100, 117, 99, 116, 105, 111, 110>>
    [] env = "PRODUCTION" -> <<80, 82, 79, 68, 85, 67, 84, 73, 79, 78>>
    [] env = "prod" -> <<112, 114, 111, 100>>
    [] env = "productions" -> <<112, 114, 111, 100, 117, 99, 116, 105, 111, 110, 115>>

\* the lower-case form of an ASCII letter
ToLower(b) == IF b >= 65 /\ b <= 90 THEN b + 32 ELSE b

\* strings.EqualFold on ASCII text
EqualFold(s, t) ==
  Len(s) = Len(t) /\ \A i \in DOMAIN s : ToLower(s[i]) = ToLower(t[i])

\* the values of the variable that tell production
ProductionEnvs ==
  {e \in WideEnvValues : EqualFold(EnvBytes(e), EnvBytes("production"))}

\* a comparison that tells the cases of letters apart
isProduction_Exact(env) == env = "production"

\* strings.EqualFold(os.Getenv(cfg.ProductionEnvVar), "production")
isProduction(env) == env \in ProductionEnvs

\* cfg.AppVersion: "" or "v1"
AppVersions == {<<>>, <<118, 49>>}

\* cfg.RequiredSchemaVersion: 0 for no check
RequiredVersions == {0, 3}

\* time.Now().Unix() as seen by a run
Times == {5}

\* AppVersion and RequiredSchemaVersion of a call that migrates: each is
\* varied with the other left at its zero value
Options == {<<a, r>> \in AppVersions \X RequiredVersions : a = <<>> \/ r = 0}

\* a Config value; env stands for the value of the variable named by
\* ProductionEnvVar at the call
Config(path, m, k, a, r, g) ==
  [Path |-> path, Migrations |-> m, SkipMigrations |-> k, AppVersion |-> a,
   RequiredSchemaVersion |-> r, AllowMemoryInProduction |-> g[2], env |-> g[1]]

\* fields that the code reads only for in-memory targets keep their zero
\* value for persistent ones
GuardsOf(path) == IF isMemory(path) THEN Guards ELSE {<<"", FALSE>>}

\* the Config values callers pass: with SkipMigrations the collection is
\* never read, so only collections of plain scripts are passed with it
Configs(path) ==
  {Config(path, m, FALSE, o[1], o[2], g) :
     m \in {NoFS} \cup Collections, o \in Options, g \in GuardsOf(path)}
  \cup
  {Config(path, m, TRUE, <<>>, r, g) :
     m \in {NoFS} \cup SUBSET PlainEntries, r \in RequiredVersions,
     g \in GuardsOf(path)}

\* what listMigrationFiles returns for each collection, over the orders in
\* which fs.ReadDir may list its entries
ListResults == [S \in Collections |-> {listMigrationFiles(q) : q \in Listings(S)}]

(***************************************************************************)
(* State                                                                   *)
(***************************************************************************)

Callers == {"c1", "c2"}

VARIABLES
  target,    \* the database the behaviour is about: "disk" or "mem"
  active,    \* the callers that make calls
  fs,        \* kind of file at DiskPath + suffix
  db,        \* content of the database (the file, or the shared memory db)
  held,      \* handles returned by Open and not yet closed by the program
  op,        \* per caller: the operation in progress, "" if none
  pc,        \* per caller: position in the operation
  cfg,       \* per caller: the Config of the call
  conn,      \* per caller: the call's *sql.DB has an open connection
  tx,        \* per caller: the database as seen inside its open transaction
  scripts,   \* per caller: scripts of migrate, sorted
  applied,   \* per caller: appliedPaths of migrate
  idx,       \* per caller: position of the loop of migrate in scripts
  result,    \* per caller: what the finished call returned
  atCall,    \* per caller: database, file at the path and handles at the call
  atScript,  \* per caller: database when applyMigration was entered
  ran,       \* per caller: paths of the scripts the call executed, in order
  expired    \* per caller: the deadline of the migration run has passed

vars == <<target, active, fs, db, held, op, pc, cfg, conn, tx, scripts,
          applied, idx, result, atCall, atScript, ran, expired>>

\* most handles the program keeps open at once
MaxHeld == 2

NoCfg == [Path |-> "", Migrations |-> NoFS, SkipMigrations |-> FALSE,
          AppVersion |-> <<>>, RequiredSchemaVersion |-> 0,
          AllowMemoryInProduction |-> FALSE, env |-> ""]
NoResult == [err |-> "", env |-> FALSE, handle |-> FALSE, dup |-> <<>>,
             status |-> NoStatus]
NoSnapshot == [db |-> EmptyDB, file |-> "absent", held |-> 0]

\* the state after construction: no call made yet; a persistent path has
\* no file or an empty one
Init ==
  /\ target \in {"disk", "mem"}
  /\ active = {"c1"}
  /\ fs \in {f \in [Suffixes -> FileKinds] :
               /\ f[""] \in (IF target = "disk" THEN {"absent", "regular"} ELSE {"absent"})
               /\ f["-shm"] = "absent" /\ f["-wal"] = "absent"}
  /\ db = EmptyDB
  /\ held = 0
  /\ op = [c \in Callers |-> ""]
  /\ pc = [c \in Callers |-> "idle"]
  /\ cfg = [c \in Callers |-> NoCfg]
  /\ conn = [c \in Callers |-> FALSE]
  /\ tx = [c \in Callers |-> EmptyDB]
  /\ scripts = [c \in Callers |-> <<>>]
  /\ applied = [c \in Callers |-> {}]
  /\ idx = [c \in Callers |-> 0]
  /\ result = [c \in Callers |-> NoResult]
  /\ atCall = [c \in Callers |-> NoSnapshot]
  /\ atScript = [c \in Callers |-> EmptyDB]
  /\ ran = [c \in Callers |-> <<>>]
  /\ expired = [c \in Callers |-> FALSE]

\* the path the calls of this behaviour are made on
ThePath == IF target = "mem" THEN MemPath ELSE DiskPath

(***************************************************************************)
(* Connections                                                             *)
(***************************************************************************)

\* c holds the last open connection to the database
LastConn(c) == held = 0 /\ \A o \in Callers \ {c} : ~conn[o]

\* db.Close() of c's connection: a shared in-memory database lives as long
\* as one connection to it is open
AfterClose(c, d) ==
  IF target = "mem" /\ conn[c] /\ LastConn(c) THEN EmptyDB ELSE d

\* the WAL sidecar files are made by the first connection to a persistent
\* database and removed when its last connection is closed
WithSidecars(f) ==
  [x \in Suffixes |-> IF x # "" /\ f[x] = "absent" THEN "regular" ELSE f[x]]

WithoutSidecars(f) ==
  [x \in Suffixes |-> IF x # "" /\ f[x] = "regular" THEN "absent" ELSE f[x]]

\* a Create that takes its file away when it fails
FilesAfterClose_Cleanup(c, f) ==
  IF target = "disk" /\ conn[c] /\ op[c] = "Create"
    THEN [x \in Suffixes |-> IF f[x] = "regular" THEN "absent" ELSE f[x]]
    ELSE f

FilesAfterClose(c, f) ==
  IF target = "disk" /\ conn[c] /\ LastConn(c) THEN WithoutSidecars(f) ELSE f

\* the call of c returns err ("" for success without a handle) with the
\* database left as d; env
\* tells that the cause was the environment (the connection, the context,
\* the file system) and not what the database or the collection holds.
\* The connection of the call, if any, is closed (the deferred db.Close
\* of openAndMigrate).
ReturnWith(c, err, env, dup, d) ==
  /\ pc' = [pc EXCEPT ![c] = "done"]
  /\ result' = [result EXCEPT ![c] =
                  [err |-> err, env |-> env, handle |-> FALSE, dup |-> dup,
                   status |-> NoStatus]]
  /\ db' = AfterClose(c, d)
  /\ fs' = FilesAfterClose(c, fs)
  /\ conn' = [conn EXCEPT ![c] = FALSE]
  /\ tx' = [tx EXCEPT ![c] = EmptyDB]

\* a failure outside a transaction
Fail(c, err) == ReturnWith(c, err, FALSE, <<>>, db)

\* a failure of the environment outside a transaction
FailEnv(c, err) == ReturnWith(c, err, TRUE, <<>>, db)

(***************************************************************************)
(* Open and Create up to openAndMigrate                                    *)
(***************************************************************************)

\* what a call starts with
Begin(c, name, config) ==
  /\ op' = [op EXCEPT ![c] = name]
  /\ cfg' = [cfg EXCEPT ![c] = config]
  /\ atCall' = [atCall EXCEPT ![c] = [db |-> db, file |-> fs[""], held |-> held]]
  /\ UNCHANGED <<target, active, expired, held, scripts, applied, idx, atScript, ran>>

\* the call goes on to openAndMigrate
Enter(c) ==
  /\ pc' = [pc EXCEPT ![c] = "openAndMigrate"]
  /\ UNCHANGED <<fs, db, conn, tx, result>>

\* Open, with openMemory and openPersistent
OpenWith(c, config) ==
  /\ Begin(c, "Open", config)
  /\ IF isMemory(config.Path)
       THEN IF isProduction(config.env) /\ ~config.AllowMemoryInProduction
              THEN Fail(c, "in-memory database not allowed in production")
              ELSE Enter(c)
       ELSE LET v == validatePersistentPath(config.Path, fs) IN
            IF v # "" THEN Fail(c, v)
            ELSE IF ~fileExists(Stat(config.Path, "", fs))
              THEN Fail(c, "database file not found")
            ELSE Enter(c)

\* Create, up to its call of openAndMigrate
CreateWith(c, config) ==
  /\ Begin(c, "Create", config)
  /\ IF isMemory(config.Path)
       THEN Fail(c, "Create requires a persistent path, not :memory:")
       ELSE LET v == validatePersistentPath(config.Path, fs) IN
            IF v # "" THEN Fail(c, v)
            ELSE IF fileExists(Stat(config.Path, "", fs))
              THEN Fail(c, "file already exists")
            ELSE Enter(c)

\* a call of Open by c, with any Config
Open(c) ==
  /\ c \in active /\ pc[c] = "idle"
  /\ held < MaxHeld
  /\ \E config \in Configs(ThePath) : OpenWith(c, config)

\* a call of Create by c, with any Config
Create(c) ==
  /\ c \in active /\ pc[c] = "idle"
  /\ \E config \in Configs(ThePath) : CreateWith(c, config)

(***************************************************************************)
(* openAndMigrate                                                          *)
(***************************************************************************)

\* an openAndMigrate that calls migrate whatever cfg.SkipMigrations says
AfterPing_Migrate(config) == "migrate"

\* openAndMigrate, line 265: where the call goes after the ping
AfterPing(config) == IF config.SkipMigrations THEN "verify" ELSE "migrate"

\* sql.Open and db.PingContext: the first connection is made. SQLite makes
\* the file if there is none. The ping can fail before or after that.
Connect(c) ==
  /\ pc[c] = "openAndMigrate"
  /\ LET mem == isMemory(cfg[c].Path)
         made == IF ~mem /\ fs[""] = "absent" THEN [fs EXCEPT ![""] = "regular"] ELSE fs
     IN \/ /\ mem \/ made[""] = "regular"
           /\ fs' = (IF mem THEN fs ELSE WithSidecars(made))
           /\ conn' = [conn EXCEPT ![c] = TRUE]
           /\ pc' = [pc EXCEPT ![c] = AfterPing(cfg[c])]
           /\ UNCHANGED <<db, tx, result>>
        \/ /\ \E f \in {fs, made} : fs' = f
           /\ pc' = [pc EXCEPT ![c] = "done"]
           /\ result' = [result EXCEPT ![c] =
                           [err |-> "ping", env |-> TRUE, handle |-> FALSE, dup |-> <<>>,
                   status |-> NoStatus]]
           /\ UNCHANGED <<db, conn, tx>>
  /\ UNCHANGED <<target, active, expired, held, op, cfg, scripts, applied, idx, atCall, atScript, ran>>

\* what the steps of migrate leave alone
MigrateFrame == UNCHANGED <<target, active, expired, held, op, cfg, atCall>>

\* migrate, lines 141-158: fetchSchemaVersion and the needsInit decision
MigrateStart(c) ==
  /\ pc[c] = "migrate"
  /\ LET r == fetchSchemaVersion(db) IN
     \/ /\ r.err = "" /\ ~expired[c]
        /\ pc' = [pc EXCEPT ![c] = IF r.version = -1 THEN "applySchemaInit" ELSE "discover"]
        /\ UNCHANGED <<fs, db, conn, tx, result>>
     \/ /\ r.err # "" /\ ~expired[c]
        /\ Fail(c, r.err)
     \/ FailEnv(c, "fetch schema.version")
  /\ UNCHANGED <<scripts, applied, idx, atScript, ran>>
  /\ MigrateFrame

(***************************************************************************)
(* applySchemaInit                                                         *)
(***************************************************************************)

\* a statement that runs whether or not the deadline has passed
TxStep_Unbounded(c, r, next) ==
  /\ r.err = ""
  /\ tx' = [tx EXCEPT ![c] = r.d]
  /\ pc' = [pc EXCEPT ![c] = next]
  /\ UNCHANGED <<fs, db, conn, result>>

\* a statement with result r succeeds inside the transaction of c, and
\* the call moves to next; no statement runs on a context that is done
TxStep(c, r, next) ==
  /\ r.err = "" /\ ~expired[c]
  /\ tx' = [tx EXCEPT ![c] = r.d]
  /\ pc' = [pc EXCEPT ![c] = next]
  /\ UNCHANGED <<fs, db, conn, result>>

\* a statement with result r fails inside the transaction of c, by itself
\* or because of the environment; the deferred tx.Rollback runs
TxFail(c, r, errName) ==
  \/ /\ r.err # "" /\ ~expired[c]
     /\ ReturnWith(c, errName, FALSE, <<>>, Rollback(db, r.d))
  \/ ReturnWith(c, errName, TRUE, <<>>, Rollback(db, r.d))

\* positions of a call whose transaction has written: its connection holds
\* the write lock of the database up to the commit or the rollback
Writing ==
  {"init_record", "init_meta", "init_commit", "apply_record", "apply_update",
   "apply_commit"}

\* a database that lets a second connection write while the first one is
\* inside its transaction
Locked_Never(c) == FALSE

\* SQLite has one writer at a time: another connection holds the write lock
Locked(c) == \E o \in Callers \ {c} : pc[o] \in Writing

\* the first statement of the transaction of c, with result r on the
\* database as committed (BEGIN is deferred: the transaction sees the
\* database as it is at its first statement). The statement takes the
\* write lock, and waits while another connection holds it (busy_timeout);
\* a wait that runs out is a failure by the environment, see TxFail.
TxFirst(c, r, next) ==
  /\ ~Locked(c)
  /\ TxStep(c, r, next)

\* db.BeginTx: the transaction starts from the database as it is
BeginTx(c, next) ==
  /\ ~expired[c]
  /\ tx' = [tx EXCEPT ![c] = db]
  /\ pc' = [pc EXCEPT ![c] = next]
  /\ UNCHANGED <<fs, db, conn, result>>

\* tx.Commit() of c's transaction succeeds, then the call moves to next
CommitTx(c, next) ==
  /\ ~expired[c]
  /\ db' = Commit(db, tx[c])
  /\ tx' = [tx EXCEPT ![c] = EmptyDB]
  /\ pc' = [pc EXCEPT ![c] = next]
  /\ UNCHANGED <<fs, conn, result>>

\* tx.Commit() fails: nothing of the transaction is kept
CommitFail(c, errName) ==
  ReturnWith(c, errName, TRUE, <<>>, Rollback(db, tx[c]))

\* what the steps of applySchemaInit leave alone
InitFrame ==
  /\ UNCHANGED <<scripts, applied, idx, atScript, ran>>
  /\ MigrateFrame

\* applySchemaInit, lines 205-214: read schema.sql, begin the transaction
InitBegin(c) ==
  /\ pc[c] = "applySchemaInit"
  /\ \/ BeginTx(c, "init_exec")
     \/ FailEnv(c, "init schema: begin")
  /\ InitFrame

\* applySchemaInit, lines 216-218: execute schema.sql
InitExec(c) ==
  /\ pc[c] = "init_exec"
  /\ LET r == ExecSchemaSql(db) IN
     \/ TxFirst(c, r, "init_record")
     \/ TxFail(c, r, "init schema: exec schema.sql")
  /\ InitFrame

\* 'init' and 'schema.sql', the comment and path of the record of id 0
InitComment == <<105, 110, 105, 116>>
InitPath == "schema.sql"

\* applySchemaInit, lines 220-230: record the init as migration 0
InitRecord(c) ==
  /\ pc[c] = "init_record"
  /\ LET r == InsertMigration(tx[c], 0, InitComment, InitPath) IN
     \/ TxStep(c, r, "init_meta")
     \/ TxFail(c, r, "init schema: record init")
  /\ InitFrame

\* the two UPDATEs of app.version and db.created_at at time ts
SetAppMetadata(d, appVersion, ts) ==
  LET r1 == UpdateConfig(d, "app.version", appVersion) IN
  IF r1.err # "" THEN r1
  ELSE UpdateConfig(r1.d, "db.created_at", Itoa(ts))

\* an init that sets the app metadata whatever AppVersion is
NeedsAppMetadata_Always(config) == TRUE

\* applySchemaInit, line 233: if cfg.AppVersion != ""
NeedsAppMetadata(config) == config.AppVersion # <<>>

\* applySchemaInit, lines 232-242: app metadata, if AppVersion is set
InitMeta(c) ==
  /\ pc[c] = "init_meta"
  /\ IF NeedsAppMetadata(cfg[c])
       THEN \E ts \in Times :
              LET r == SetAppMetadata(tx[c], cfg[c].AppVersion, ts) IN
              \/ TxStep(c, r, "init_commit")
              \/ TxFail(c, r, "init schema: set app metadata")
       ELSE /\ pc' = [pc EXCEPT ![c] = "init_commit"]
            /\ UNCHANGED <<fs, db, conn, tx, result>>
  /\ InitFrame

\* applySchemaInit, line 244
InitCommit(c) ==
  /\ pc[c] = "init_commit"
  /\ \/ CommitTx(c, "discover")
     \/ CommitFail(c, "init schema: commit")
  /\ InitFrame

(***************************************************************************)
(* migrate, after the init                                                 *)
(***************************************************************************)

\* migrate, lines 160-185: the nil check, listMigrationFiles on some
\* listing of the collection, fetchAppliedMigrations
Discover(c) ==
  /\ pc[c] = "discover"
  /\ IF cfg[c].Migrations = NoFS
       THEN /\ pc' = [pc EXCEPT ![c] = "verify"]
            /\ UNCHANGED <<fs, db, conn, tx, result, scripts, applied, idx>>
       ELSE \/ \E r \in ListResults[cfg[c].Migrations] :
                 IF r.err # ""
                   THEN /\ ReturnWith(c, r.err, FALSE, r.dup, db)
                        /\ UNCHANGED <<scripts, applied, idx>>
                 ELSE IF Len(r.scripts) = 0
                   THEN /\ pc' = [pc EXCEPT ![c] = "verify"]
                        /\ UNCHANGED <<fs, db, conn, tx, result, scripts, applied, idx>>
                 ELSE \/ /\ ~expired[c]
                         /\ scripts' = [scripts EXCEPT ![c] = r.scripts]
                         /\ applied' = [applied EXCEPT ![c] = appliedPaths(db)]
                         /\ idx' = [idx EXCEPT ![c] = 1]
                         /\ pc' = [pc EXCEPT ![c] = "loop"]
                         /\ UNCHANGED <<fs, db, conn, tx, result>>
                      \/ /\ FailEnv(c, "fetch applied")
                         /\ UNCHANGED <<scripts, applied, idx>>
            \/ /\ FailEnv(c, "list migrations: read dir")
               /\ UNCHANGED <<scripts, applied, idx>>
  /\ UNCHANGED <<atScript, ran>>
  /\ MigrateFrame

\* migrate, lines 189-198: one turn of the loop over scripts
Loop(c) ==
  /\ pc[c] = "loop"
  /\ IF idx[c] > Len(scripts[c])
       THEN /\ pc' = [pc EXCEPT ![c] = "verify"]
            /\ UNCHANGED idx
       ELSE IF scripts[c][idx[c]].Path \in applied[c]
         THEN /\ idx' = [idx EXCEPT ![c] = @ + 1]
              /\ UNCHANGED pc
         ELSE /\ pc' = [pc EXCEPT ![c] = "applyMigration"]
              /\ UNCHANGED idx
  /\ UNCHANGED <<fs, db, conn, tx, result, scripts, applied, atScript, ran>>
  /\ MigrateFrame

(***************************************************************************)
(* applyMigration                                                          *)
(***************************************************************************)

\* the script applyMigration was called with
Current(c) == scripts[c][idx[c]]

\* a loop that rolls the failed script back and goes on with the next one
ApplyFail_Continue(c, r, errName) ==
  /\ tx' = [tx EXCEPT ![c] = EmptyDB]
  /\ pc' = [pc EXCEPT ![c] = "loop"]
  /\ idx' = [idx EXCEPT ![c] = @ + 1]
  /\ UNCHANGED <<fs, db, conn, result>>

\* migrate, lines 195-197: applyMigration failed on a statement with
\* result r; the transaction is rolled back and migrate returns the error
ApplyFail(c, r, errName) ==
  /\ TxFail(c, r, errName)
  /\ UNCHANGED idx

\* applyMigration, lines 249-258: read the script, begin the transaction
ApplyBegin(c) ==
  /\ pc[c] = "applyMigration"
  /\ \/ BeginTx(c, "apply_exec")
     \/ FailEnv(c, "apply: begin")
     \/ FailEnv(c, "apply: read")
  /\ atScript' = [atScript EXCEPT ![c] = db]
  /\ UNCHANGED <<scripts, applied, idx, ran>>
  /\ MigrateFrame

\* applyMigration, lines 260-263: execute the script
ApplyExec(c) ==
  /\ pc[c] = "apply_exec"
  /\ LET r == ExecScript(db, Current(c).Path) IN
     \/ TxFirst(c, r, "apply_record") /\ UNCHANGED idx
     \/ ApplyFail(c, r, "apply: exec")
  /\ ran' = [ran EXCEPT ![c] = Append(@, Current(c).Path)]
  /\ UNCHANGED <<scripts, applied, atScript>>
  /\ MigrateFrame

\* applyMigration, lines 265-273: record the migration
ApplyRecord(c) ==
  /\ pc[c] = "apply_record"
  /\ LET r == InsertMigration(tx[c], Current(c).ID, Current(c).Comment, Current(c).Path) IN
     \/ TxStep(c, r, "apply_update") /\ UNCHANGED idx
     \/ ApplyFail(c, r, "apply: record")
  /\ UNCHANGED <<scripts, applied, atScript, ran>>
  /\ MigrateFrame

\* no UPDATE of schema.version
UpdateSchemaVersion_None(d, id) == Done(d, 1)

\* the UPDATE of schema.version with the check of RowsAffected
UpdateSchemaVersion(d, id) ==
  LET r == UpdateConfig(d, "schema.version", Itoa(id)) IN
  IF r.err = "" /\ r.rows # 1
    THEN Failed("schema.version update affected wrong number of rows", r.d)
    ELSE r

\* applyMigration, lines 275-287: update schema.version, verify the update
ApplyUpdate(c) ==
  /\ pc[c] = "apply_update"
  /\ LET r == UpdateSchemaVersion(tx[c], Current(c).ID) IN
     \/ TxStep(c, r, "apply_commit") /\ UNCHANGED idx
     \/ ApplyFail(c, r, "apply: update schema.version")
  /\ UNCHANGED <<scripts, applied, atScript, ran>>
  /\ MigrateFrame

\* applyMigration, line 289, and the next turn of the loop
ApplyCommit(c) ==
  /\ pc[c] = "apply_commit"
  /\ \/ /\ CommitTx(c, "loop")
        /\ idx' = [idx EXCEPT ![c] = @ + 1]
     \/ ApplyFail(c, Done(tx[c], 0), "apply: commit")
  /\ UNCHANGED <<scripts, applied, atScript, ran>>
  /\ MigrateFrame

\* positions of a call inside migrate, where the context is migCtx
MigratePcs ==
  {"migrate", "applySchemaInit", "init_exec", "init_record", "init_meta",
   "init_commit", "discover", "loop", "applyMigration", "apply_exec",
   "apply_record", "apply_update", "apply_commit"}

\* openAndMigrate, lines 266-267: the deadline of migCtx, set once before
\* migrate with cfg.MigrationTimeout, passes while migrate runs
Expire(c) ==
  /\ pc[c] \in MigratePcs /\ ~expired[c]
  /\ expired' = [expired EXCEPT ![c] = TRUE]
  /\ UNCHANGED <<target, active, fs, db, held, op, pc, cfg, conn, tx, scripts,
                 applied, idx, result, atCall, atScript, ran>>

(***************************************************************************)
(* The end of openAndMigrate, of Open and of Create                        *)
(***************************************************************************)

\* a check that passes a version above the required one
CheckRequired_AtLeast(d, required) ==
  IF required = 0 THEN ""
  ELSE LET r == fetchSchemaVersion(d) IN
       IF r.err # "" THEN "fetch schema version"
       ELSE IF r.version = -1 THEN "schema version check failed: database not initialized"
       ELSE IF r.version < required THEN "schema version mismatch"
       ELSE ""

\* openAndMigrate, lines 274-286: the check of RequiredSchemaVersion;
\* "" when the check passes or is not asked for
CheckRequired(d, required) ==
  IF required = 0 THEN ""
  ELSE LET r == fetchSchemaVersion(d) IN
       IF r.err # "" THEN "fetch schema version"
       ELSE IF r.version = -1 THEN "schema version check failed: database not initialized"
       ELSE IF r.version # required THEN "schema version mismatch"
       ELSE ""

\* a check that is left out when migrations are skipped
RequiredOf_UnlessSkipped(config) ==
  IF config.SkipMigrations THEN 0 ELSE config.RequiredSchemaVersion

\* openAndMigrate, line 274: the version the check is made against; the
\* check is outside the 'if !cfg.SkipMigrations' block
RequiredOf(config) == config.RequiredSchemaVersion

\* openAndMigrate, lines 274-290, and the return of Open (the handle goes
\* to the program) or of Create (db.Close, the error of which is returned)
Verify(c) ==
  /\ pc[c] = "verify"
  /\ LET e == CheckRequired(db, RequiredOf(cfg[c])) IN
     \/ /\ e # ""
        /\ Fail(c, e)
        /\ UNCHANGED held
     \/ /\ RequiredOf(cfg[c]) # 0
        /\ FailEnv(c, "fetch schema version")
        /\ UNCHANGED held
     \/ /\ e = "" /\ op[c] = "Open"
        /\ held' = held + 1
        /\ conn' = [conn EXCEPT ![c] = FALSE]
        /\ pc' = [pc EXCEPT ![c] = "done"]
        /\ result' = [result EXCEPT ![c] =
                        [err |-> "", env |-> FALSE, handle |-> TRUE, dup |-> <<>>,
                   status |-> NoStatus]]
        /\ UNCHANGED <<fs, db, tx>>
     \/ /\ e = "" /\ op[c] = "Create"
        /\ \/ ReturnWith(c, "", FALSE, <<>>, db)
           \/ FailEnv(c, "close")
        /\ UNCHANGED held
     \/ /\ e = "" /\ op[c] = "Status"
        /\ pc' = [pc EXCEPT ![c] = "getStatus"]
        /\ UNCHANGED <<fs, db, conn, tx, result, held>>
  /\ UNCHANGED <<target, active, expired, op, cfg, scripts, applied, idx, atCall, atScript, ran>>

\* the program has looked at what the call returned; c can call again
Forget(c) ==
  /\ pc[c] = "done"
  /\ pc' = [pc EXCEPT ![c] = "idle"]
  /\ op' = [op EXCEPT ![c] = ""]
  /\ cfg' = [cfg EXCEPT ![c] = NoCfg]
  /\ result' = [result EXCEPT ![c] = NoResult]
  /\ scripts' = [scripts EXCEPT ![c] = <<>>]
  /\ applied' = [applied EXCEPT ![c] = {}]
  /\ idx' = [idx EXCEPT ![c] = 0]
  /\ atCall' = [atCall EXCEPT ![c] = NoSnapshot]
  /\ atScript' = [atScript EXCEPT ![c] = EmptyDB]
  /\ ran' = [ran EXCEPT ![c] = <<>>]
  /\ expired' = [expired EXCEPT ![c] = FALSE]
  /\ UNCHANGED <<target, active, fs, db, held, conn, tx>>

\* the program closes a handle that Open returned, between its calls
CloseHandle ==
  /\ held > 0
  /\ \A c \in Callers : pc[c] = "idle"
  /\ held' = held - 1
  /\ LET last == held = 1 /\ \A c \in Callers : ~conn[c] IN
     /\ db' = IF target = "mem" /\ last THEN EmptyDB ELSE db
     /\ fs' = IF target = "disk" /\ last THEN WithoutSidecars(fs) ELSE fs
  /\ UNCHANGED <<target, active, expired, op, pc, cfg, conn, tx, scripts, applied, idx,
                 result, atCall, atScript, ran>>

(***************************************************************************)
(* Delete                                                                  *)
(***************************************************************************)

\* a loop that keeps the last failure and not the first
RECURSIVE DeleteLoop_LastErr(_, _, _, _)
DeleteLoop_LastErr(f, i, firstErr, cannot) ==
  IF i > Len(DeleteOrder) THEN [fs |-> f, firstErr |-> firstErr]
  ELSE LET x == DeleteOrder[i] IN
    IF ~fileExists(f[x]) THEN DeleteLoop_LastErr(f, i + 1, firstErr, cannot)
    ELSE IF ~isRegularFile(f[x])
      THEN DeleteLoop_LastErr(f, i + 1, "not a regular file", cannot)
    ELSE IF x \in cannot
      THEN DeleteLoop_LastErr(f, i + 1, "remove", cannot)
    ELSE DeleteLoop_LastErr([f EXCEPT ![x] = "absent"], i + 1, firstErr, cannot)

\* Delete, lines 157-176: the loop over "", "-shm", "-wal" from position i;
\* cannot is the set of suffixes for which os.Remove fails
RECURSIVE DeleteLoop(_, _, _, _)
DeleteLoop(f, i, firstErr, cannot) ==
  IF i > Len(DeleteOrder) THEN [fs |-> f, firstErr |-> firstErr]
  ELSE LET x == DeleteOrder[i] IN
    IF ~fileExists(f[x]) THEN DeleteLoop(f, i + 1, firstErr, cannot)
    ELSE IF ~isRegularFile(f[x])
      THEN DeleteLoop(f, i + 1, IF firstErr = "" THEN "not a regular file" ELSE firstErr, cannot)
    ELSE IF x \in cannot
      THEN DeleteLoop(f, i + 1, IF firstErr = "" THEN "remove" ELSE firstErr, cannot)
    ELSE DeleteLoop([f EXCEPT ![x] = "absent"], i + 1, firstErr, cannot)

\* a Delete that reports a missing database file as an error
DeleteResult_Strict(path, f, cannot) ==
  IF isMemory(path)
    THEN [fs |-> f, err |-> "cannot delete in-memory database", env |-> FALSE]
  ELSE LET v == validatePersistentPath(path, f) IN
    IF v # "" THEN [fs |-> f, err |-> v, env |-> FALSE]
    ELSE IF ~fileExists(Stat(path, "", f))
      THEN [fs |-> f, err |-> "database file not found", env |-> FALSE]
    ELSE LET r == DeleteLoop(f, 1, "", cannot) IN
      IF r.firstErr # ""
        THEN [fs |-> r.fs, err |-> "delete", env |-> r.firstErr = "remove"]
      ELSE [fs |-> r.fs, err |-> "", env |-> FALSE]

\* Delete: the files after the call and the error returned; env tells
\* that an os.Remove failed
DeleteResult(path, f, cannot) ==
  IF isMemory(path)
    THEN [fs |-> f, err |-> "cannot delete in-memory database", env |-> FALSE]
  ELSE LET v == validatePersistentPath(path, f) IN
    IF v # "" THEN [fs |-> f, err |-> v, env |-> FALSE]
    ELSE IF ~fileExists(Stat(path, "", f)) THEN [fs |-> f, err |-> "", env |-> FALSE]
    ELSE LET r == DeleteLoop(f, 1, "", cannot) IN
      IF r.firstErr # ""
        THEN [fs |-> r.fs, err |-> "delete", env |-> r.firstErr = "remove"]
      ELSE IF fileExists(r.fs[""])
        THEN [fs |-> r.fs, err |-> "still exists after delete", env |-> FALSE]
      ELSE [fs |-> r.fs, err |-> "", env |-> FALSE]

\* Delete(ctx, path). With the file the database in it is gone, and the
\* handles on it are handles on no database of the model.
Delete(c, path) ==
  /\ c \in active /\ pc[c] = "idle"
  /\ \E cannot \in SUBSET Suffixes :
       LET r == DeleteResult(path, fs, cannot)
           gone == fs[""] # "absent" /\ r.fs[""] = "absent"
       IN /\ fs' = r.fs
          /\ db' = IF gone THEN EmptyDB ELSE db
          /\ held' = IF gone THEN 0 ELSE held
          /\ result' = [result EXCEPT ![c] =
                          [err |-> r.err, env |-> r.env, handle |-> FALSE, dup |-> <<>>,
                   status |-> NoStatus]]
  /\ op' = [op EXCEPT ![c] = "Delete"]
  /\ pc' = [pc EXCEPT ![c] = "done"]
  /\ cfg' = [cfg EXCEPT ![c] = [NoCfg EXCEPT !.Path = path]]
  /\ atCall' = [atCall EXCEPT ![c] = [db |-> db, file |-> fs[""], held |-> held]]
  /\ UNCHANGED <<target, active, expired, conn, tx, scripts, applied, idx, atScript, ran>>

(***************************************************************************)
(* Status                                                                  *)
(***************************************************************************)

\* a Status that leaves cfg.SkipMigrations as the caller gave it
ForceSkip_Keep(config) == config

\* Status, line 192: cfg.SkipMigrations = true
ForceSkip(config) == [config EXCEPT !.SkipMigrations = TRUE]

\* a Status that goes to openPersistent without a look at the file
StatusWith_OpenFirst(c, config) ==
  /\ Begin(c, "Status", ForceSkip(config))
  /\ IF isMemory(config.Path)
       THEN Fail(c, "cannot check status of in-memory database")
     ELSE LET v == validatePersistentPath(config.Path, fs) IN
          IF v # "" THEN Fail(c, v)
          ELSE IF ~fileExists(Stat(config.Path, "", fs))
            THEN Fail(c, "database file not found")
          ELSE Enter(c)

\* Status, up to its call of openAndMigrate (through openPersistent)
StatusWith(c, config) ==
  /\ Begin(c, "Status", ForceSkip(config))
  /\ IF isMemory(config.Path)
       THEN Fail(c, "cannot check status of in-memory database")
     ELSE IF ~fileExists(Stat(config.Path, "", fs))
       THEN ReturnWith(c, "", FALSE, <<>>, db)
     ELSE LET v == validatePersistentPath(config.Path, fs) IN
          IF v # "" THEN Fail(c, v)
          ELSE IF ~fileExists(Stat(config.Path, "", fs))
            THEN Fail(c, "database file not found")
          ELSE Enter(c)

\* the Config values Status is called with: AppVersion is never read
StatusConfigs(path) ==
  {Config(path, m, k, <<>>, r, <<"", FALSE>>) :
     m \in {NoFS} \cup Collections, k \in BOOLEAN, r \in RequiredVersions}

\* a call of Status by c, with any Config
Status(c) ==
  /\ c \in active /\ pc[c] = "idle"
  /\ \E config \in StatusConfigs(ThePath) : StatusWith(c, config)

\* what listMigrationFiles can return for the collection of a Config
Listed(config) ==
  IF config.Migrations = NoFS
    THEN {[err |-> "", scripts |-> <<>>, dup |-> <<>>]}
    ELSE ListResults[config.Migrations]

\* Status, lines 210-212: getStatus on the open database, then the
\* deferred db.Close()
GetStatus(c) ==
  /\ pc[c] = "getStatus"
  /\ \/ \E listed \in Listed(cfg[c]) :
          LET r == getStatus(db, cfg[c].Migrations # NoFS, listed) IN
          /\ result' = [result EXCEPT ![c] =
                          [err |-> r.err, env |-> FALSE, handle |-> FALSE,
                           dup |-> <<>>, status |-> r.status]]
          /\ pc' = [pc EXCEPT ![c] = "done"]
          /\ db' = AfterClose(c, db)
          /\ fs' = FilesAfterClose(c, fs)
          /\ conn' = [conn EXCEPT ![c] = FALSE]
          /\ UNCHANGED tx
     \/ FailEnv(c, "get status")
  /\ UNCHANGED <<target, active, expired, held, op, cfg, scripts, applied, idx, atCall,
                 atScript, ran>>

(***************************************************************************)
(* Specification                                                           *)
(***************************************************************************)

Next ==
  \/ \E c \in Callers : Open(c)
  \/ \E c \in Callers : Create(c)
  \/ \E c \in Callers : Delete(c, ThePath)
  \/ \E c \in Callers : Status(c)
  \/ \E c \in Callers : GetStatus(c)
  \/ \E c \in Callers : Connect(c)
  \/ \E c \in Callers : MigrateStart(c)
  \/ \E c \in Callers : InitBegin(c)
  \/ \E c \in Callers : InitExec(c)
  \/ \E c \in Callers : InitRecord(c)
  \/ \E c \in Callers : InitMeta(c)
  \/ \E c \in Callers : InitCommit(c)
  \/ \E c \in Callers : Discover(c)
  \/ \E c \in Callers : Loop(c)
  \/ \E c \in Callers : ApplyBegin(c)
  \/ \E c \in Callers : ApplyExec(c)
  \/ \E c \in Callers : ApplyRecord(c)
  \/ \E c \in Callers : ApplyUpdate(c)
  \/ \E c \in Callers : ApplyCommit(c)
  \/ \E c \in Callers : Verify(c)
  \/ \E c \in Callers : Forget(c)
  \/ CloseHandle

Spec == Init /\ [][Next]_vars

(***************************************************************************)
(* The calls on any location, from any state of the files                  *)
(***************************************************************************)

\* the state after construction, with whatever earlier programs left at
\* DiskPath and beside it
InitLifecycle ==
  /\ target \in {"disk", "mem"}
  /\ active = {"c1"}
  /\ fs \in (IF target = "disk" THEN [Suffixes -> FileKinds]
                                ELSE {[x \in Suffixes |-> "absent"]})
  /\ db = EmptyDB
  /\ held = 0
  /\ op = [c \in Callers |-> ""]
  /\ pc = [c \in Callers |-> "idle"]
  /\ cfg = [c \in Callers |-> NoCfg]
  /\ conn = [c \in Callers |-> FALSE]
  /\ tx = [c \in Callers |-> EmptyDB]
  /\ scripts = [c \in Callers |-> <<>>]
  /\ applied = [c \in Callers |-> {}]
  /\ idx = [c \in Callers |-> 0]
  /\ result = [c \in Callers |-> NoResult]
  /\ atCall = [c \in Callers |-> NoSnapshot]
  /\ atScript = [c \in Callers |-> EmptyDB]
  /\ ran = [c \in Callers |-> <<>>]
  /\ expired = [c \in Callers |-> FALSE]

\* the locations the calls name: Open is called on the database of the
\* behaviour, the file-lifecycle operations on any location
OpenPaths == IF target = "mem" THEN {MemPath} ELSE Paths \ MemoryPaths
CallPaths == IF target = "mem" THEN MemoryPaths ELSE Paths

\* the variable and the permission, in every combination
WideGuards == WideEnvValues \X BOOLEAN

\* cfg.RequiredSchemaVersion: also a version below the last plain script
WideRequiredVersions == RequiredVersions \cup {1}

\* cfg.AppVersion: "", "v1" or "v2"
WideAppVersions == AppVersions \cup {<<118, 50>>}

\* SkipMigrations, AppVersion and RequiredSchemaVersion of these calls:
\* AppVersion is varied in the calls that migrate and require no version
LifecycleOptions ==
  {<<k, a, r>> \in BOOLEAN \X WideAppVersions \X WideRequiredVersions :
     a = <<>> \/ (~k /\ r = 0)}

\* the Config values of these calls: no collection or the plain one; for
\* a persistent location the variable is unset or tells production
LifecycleConfigs(path) ==
  {Config(path, m, o[1], o[2], o[3], g) :
     m \in {NoFS, PlainEntries}, o \in LifecycleOptions,
     g \in (IF isMemory(path) THEN WideGuards
                              ELSE {<<"", FALSE>>, <<"production", FALSE>>})}

OpenAt(c) ==
  /\ c \in active /\ pc[c] = "idle"
  /\ held < MaxHeld
  /\ \E path \in OpenPaths : \E config \in LifecycleConfigs(path) : OpenWith(c, config)

CreateAt(c) ==
  /\ c \in active /\ pc[c] = "idle"
  /\ \E path \in CallPaths : \E config \in LifecycleConfigs(path) : CreateWith(c, config)

StatusAt(c) ==
  /\ c \in active /\ pc[c] = "idle"
  /\ \E path \in CallPaths : \E config \in LifecycleConfigs(path) : StatusWith(c, config)

NextLifecycle ==
  \/ \E c \in Callers : OpenAt(c)
  \/ \E c \in Callers : CreateAt(c)
  \/ \E c \in Callers : \E path \in CallPaths : Delete(c, path)
  \/ \E c \in Callers : StatusAt(c)
  \/ \E c \in Callers : GetStatus(c)
  \/ \E c \in Callers : Connect(c)
  \/ \E c \in Callers : MigrateStart(c)
  \/ \E c \in Callers : InitBegin(c)
  \/ \E c \in Callers : InitExec(c)
  \/ \E c \in Callers : InitRecord(c)
  \/ \E c \in Callers : InitMeta(c)
  \/ \E c \in Callers : InitCommit(c)
  \/ \E c \in Callers : Discover(c)
  \/ \E c \in Callers : Loop(c)
  \/ \E c \in Callers : ApplyBegin(c)
  \/ \E c \in Callers : ApplyExec(c)
  \/ \E c \in Callers : ApplyRecord(c)
  \/ \E c \in Callers : ApplyUpdate(c)
  \/ \E c \in Callers : ApplyCommit(c)
  \/ \E c \in Callers : Verify(c)
  \/ \E c \in Callers : Forget(c)
  \/ \E c \in Callers : Expire(c)
  \/ CloseHandle

SpecLifecycle == InitLifecycle /\ [][NextLifecycle]_vars

(***************************************************************************)
(* Properties                                                              *)
(***************************************************************************)

Range(q) == {q[i] : i \in DOMAIN q}

\* the paths that have a row in schema_migrations of database d
RecordedPaths(d) == {d.migs[i].path : i \in DOMAIN d.migs}

\* the names of the files of S that match the pattern of migration files
Matching(S) ==
  IF S = NoFS THEN {}
  ELSE {e.name : e \in {x \in S : ~x.isDir /\ MatchesMigrationFile(Bytes(x.name))}}

\* Matching, worked out once for each collection of the model
MatchingOf == [S \in {NoFS} \cup Collections |-> Matching(S)]
MatchingNames(S) == MatchingOf[S]

\* positions of a call inside applyMigration
ApplyPcs == {"applyMigration", "apply_exec", "apply_record", "apply_update", "apply_commit"}

\* the errors of a failed statement or commit of applyMigration
ApplyErrs == {"apply: exec", "apply: record", "apply: update schema.version", "apply: commit"}

\* the database of the behaviour outlives the calls in progress: a file
\* does, a memory database does while the program holds a handle on it
Survives == target = "disk" \/ held > 0

\* C1: exactly-once application. Over any sequence of Open and Create
\* calls on one database, failed ones included, no path has two rows in
\* schema_migrations, no script's SQL is committed twice, and the script
\* that applyMigration works on has no row in the database.
C1_ExactlyOnce ==
  /\ \A i, j \in DOMAIN db.migs : i # j => db.migs[i].path # db.migs[j].path
  /\ \A n \in DOMAIN db.effects : db.effects[n] <= 1
  /\ \A c \in Callers :
       pc[c] \in ApplyPcs => Current(c).Path \notin RecordedPaths(db)

\* a call succeeded that found a script of its collection applied and
\* another one pending, after an earlier call had failed on the database
C1_Witness ==
  \E c \in Callers :
    /\ pc[c] = "done" /\ result[c].err = "" /\ op[c] = "Open"
    /\ \E i, j \in DOMAIN scripts[c] :
         /\ scripts[c][i].Path \in applied[c]
         /\ db.effects[scripts[c][i].Path] = 1
         /\ scripts[c][j].Path \in Range(ran[c])
    /\ Len(db.migs) = 3


\* the call of c has returned with an error of a step of applyMigration
\* inside the transaction of the script Current(c)
ApplyFailed(c) == pc[c] = "done" /\ result[c].err \in ApplyErrs

\* C2: per-script atomicity on failure. When a step of applying a script
\* fails (its SQL, the insert of its record, the update of schema.version,
\* the affected-row check or the commit), the database after the run holds
\* no record of that script and none of its effects, whole or partial, and
\* schema.version, with every other row, is as it was just before the
\* script was attempted.
C2_AtomicOnFailure ==
  \A c \in Callers : ApplyFailed(c) =>
    /\ Current(c).Path \notin RecordedPaths(db)
    /\ Current(c).Path \notin DOMAIN db.effects
    /\ Current(c).Path \notin db.partial
    /\ Survives => /\ db.config = atScript[c].config
                   /\ db = atScript[c]

\* the affected-row check fails on the third script of a run, after the
\* script deleted the schema.version row and inserted its record
C2_Witness ==
  \E c \in Callers :
    /\ ApplyFailed(c) /\ ~result[c].env /\ Survives
    /\ result[c].err = "apply: update schema.version"
    /\ SqlOf(Current(c).Path) = "delver"
    /\ Len(db.migs) = 3 /\ db.config["schema.version"] = Itoa(3)

\* C3: fail-fast. A run goes on to the next script only when every script
\* it executed has committed; when applying a script fails the call returns
\* that error without a handle, the failed script is the last one executed,
\* no script later in the order is executed or recorded by this run, and
\* the scripts the run committed before stay committed.
C3_FailFast ==
  \A c \in Callers :
    /\ pc[c] \in ApplyPcs \cup {"loop", "verify"} =>
         \A i \in DOMAIN ran[c] :
           \/ ran[c][i] \in RecordedPaths(db)
           \/ pc[c] \in ApplyPcs /\ i = Len(ran[c]) /\ ran[c][i] = Current(c).Path
    /\ ApplyFailed(c) =>
         /\ ~result[c].handle
         /\ ran[c] # <<>> /\ ran[c][Len(ran[c])] = Current(c).Path
         /\ \A j \in (idx[c] + 1)..Len(scripts[c]) :
              /\ scripts[c][j].Path \notin Range(ran[c])
              /\ scripts[c][j].Path \in RecordedPaths(db) => scripts[c][j].Path \in applied[c]
         /\ Survives =>
              \A i \in 1..(Len(ran[c]) - 1) :
                /\ ran[c][i] \in RecordedPaths(db)
                /\ db.effects[ran[c][i]] = 1

\* the second of three pending scripts fails: the first stays committed
\* and the third is not touched
C3_Witness ==
  \E c \in Callers :
    /\ ApplyFailed(c) /\ ~result[c].env /\ Survives
    /\ result[c].err = "apply: exec"
    /\ Len(ran[c]) = 2 /\ ran[c][1] \in RecordedPaths(db)
    /\ idx[c] < Len(scripts[c])
    /\ scripts[c][Len(scripts[c])].Path \notin applied[c]

\* the call of c passed the checks that Open and Create make before
\* openAndMigrate
Admitted(c) ==
  IF target = "mem"
    THEN op[c] = "Open" /\ ~(isProduction(cfg[c].env) /\ ~cfg[c].AllowMemoryInProduction)
    ELSE (op[c] = "Open") <=> (atCall[c].file # "absent")

\* an Open with migrations enabled on an initialized database in which
\* every script of the collection of the call has an applied record
Reopen(c) ==
  /\ pc[c] # "idle" /\ op[c] = "Open" /\ ~cfg[c].SkipMigrations
  /\ atCall[c].db.tables
  /\ MatchingNames(cfg[c].Migrations) \subseteq RecordedPaths(atCall[c].db)

\* C4: idempotent re-open. An Open with migrations enabled on a database
\* in which every script of the collection has an applied record executes
\* no script, runs no init, adds no record and leaves schema.version and
\* every config row unchanged, at every step and however often it is
\* repeated; admitted by the checks before the connection and without a
\* fault of the environment, it returns what the check of
\* RequiredSchemaVersion returns on that database: a handle when no version
\* is required or the required one is the stored one.
C4_IdempotentReopen ==
  \A c \in Callers : Reopen(c) =>
    /\ ran[c] = <<>>
    /\ pc[c] \notin ApplyPcs \cup {"applySchemaInit", "init_exec", "init_record", "init_meta", "init_commit"}
    /\ db = atCall[c].db
    /\ db.migs = atCall[c].db.migs /\ db.config = atCall[c].db.config
    /\ pc[c] = "done" /\ ~result[c].env /\ Admitted(c) =>
         /\ result[c].err =
              (IF cfg[c].RequiredSchemaVersion \in {0, Atoi(db.config["schema.version"])}
                 THEN "" ELSE "schema version mismatch")
         /\ result[c].handle <=> result[c].err = ""

\* a re-open with two scripts, both applied before, returns a handle
C4_Witness ==
  \E c \in Callers :
    /\ Reopen(c) /\ pc[c] = "done" /\ result[c].handle
    /\ Cardinality(MatchingNames(cfg[c].Migrations)) = 2
    /\ Len(db.migs) = 3

\* the id a file name parses to
IdOf(name) == Atoi(MatchPrefix(Bytes(name)))

\* the collections in which two files parse to the same id
WithDups ==
  {S \in Collections : \E a, b \in Matching(S) : a # b /\ IdOf(a) = IdOf(b)}
HasDupIds(S) == S \in WithDups

\* the call of c is in the loop of migrate over the discovered scripts
InLoop(c) == pc[c] \in ApplyPcs \cup {"loop"}

\* C5: discovery order. For a collection whose matching file names have
\* unique ids, whatever the order of the directory listing,
\* listMigrationFiles returns without error exactly the matching files,
\* each once, in ascending byte-wise order of the names, with the id the
\* name's prefix parses to; the pending ones are executed in that order,
\* none passed over.
C5_DiscoveryOrder ==
  \A c \in Callers :
    /\ InLoop(c) =>
         LET q == scripts[c]
             names == MatchingNames(cfg[c].Migrations)
         IN /\ {q[i].Path : i \in DOMAIN q} = names
            /\ Len(q) = Cardinality(names)
            /\ \A i, j \in DOMAIN q : i < j => StrLess(Bytes(q[i].Path), Bytes(q[j].Path))
            /\ \A i \in DOMAIN q : q[i].ID = IdOf(q[i].Path)
            /\ \A i, j \in DOMAIN ran[c] :
                 i < j => StrLess(Bytes(ran[c][i]), Bytes(ran[c][j]))
            /\ \A i \in DOMAIN ran[c] : ran[c][i] \in names \ applied[c]
            /\ \A j \in 1..(idx[c] - 1) : q[j].Path \in applied[c] \cup Range(ran[c])
    /\ pc[c] = "done" /\ ~cfg[c].SkipMigrations
         /\ result[c].err \in {"duplicate migration ID", "invalid migration id"}
         => HasDupIds(cfg[c].Migrations)

\* a run over a collection with an entry that is no script has executed
\* two pending scripts and returned success
C5_Witness ==
  \E c \in Callers :
    /\ pc[c] = "done" /\ result[c].err = "" /\ ~cfg[c].SkipMigrations
    /\ Len(ran[c]) = 2 /\ Len(scripts[c]) = 2
    /\ Cardinality(cfg[c].Migrations) = 3

\* a call that migrates with a collection in which two files have one id
WithDupIds(c) ==
  /\ pc[c] # "idle" /\ op[c] \in {"Open", "Create"} /\ ~cfg[c].SkipMigrations
  /\ HasDupIds(cfg[c].Migrations)

\* C6: duplicate ids abort the whole run. When two files of the collection
\* parse to the same id the run executes no user script, not even one that
\* sorts before the pair, and adds no user record; the call fails, and
\* where the environment holds it fails with the duplicate-id error that
\* names both files; schema.version keeps the value it had before the
\* discovery (that of the call, "0" after an init by this call).
C6_DuplicateIdsAbort ==
  \A c \in Callers : WithDupIds(c) =>
    /\ ran[c] = <<>> /\ ~InLoop(c)
    /\ \A i \in DOMAIN db.migs :
         db.migs[i].path = InitPath \/ db.migs[i].path \in RecordedPaths(atCall[c].db)
    /\ DOMAIN db.effects \subseteq DOMAIN atCall[c].db.effects
    /\ db.tables =>
         db.config["schema.version"] =
           (IF atCall[c].db.tables THEN atCall[c].db.config["schema.version"] ELSE <<Zero>>)
    /\ pc[c] = "done" =>
         /\ result[c].err # "" /\ ~result[c].handle
         /\ Admitted(c) /\ ~result[c].env => result[c].err = "duplicate migration ID"
         /\ result[c].err = "duplicate migration ID" =>
              /\ Len(result[c].dup) = 2
              /\ result[c].dup[1] # result[c].dup[2]
              /\ Range(result[c].dup) \subseteq MatchingNames(cfg[c].Migrations)
              /\ IdOf(result[c].dup[1]) = IdOf(result[c].dup[2])

\* a run with the scripts of ids 1, 3 and 3 fails on the two files of id 3
\* and leaves the script of id 1 unapplied in the initialized database
C6_Witness ==
  \E c \in Callers :
    /\ WithDupIds(c) /\ pc[c] = "done"
    /\ result[c].err = "duplicate migration ID"
    /\ Range(result[c].dup) = {N3, N3c}
    /\ N1 \in MatchingNames(cfg[c].Migrations)
    /\ db.tables /\ RecordedPaths(db) = {InitPath}

\* an Open with migrations enabled on a database that is not initialized
Fresh(c) ==
  /\ pc[c] # "idle" /\ op[c] = "Open" /\ ~cfg[c].SkipMigrations
  /\ ~atCall[c].db.tables

\* the SQL of every script of S succeeds and the ids are unique
AllSucceed(S) == ~HasDupIds(S) /\ \A n \in MatchingNames(S) : SqlOf(n) # "bad"

\* the last of the names S in byte-wise order
LastName(S) == CHOOSE l \in S : \A n \in S \ {l} : StrLess(Bytes(n), Bytes(l))

\* schema.version after the scripts named S were applied to a new database
FinalVersion(S) == IF S = {} THEN <<Zero>> ELSE Itoa(IdOf(LastName(S)))

\* C7: the result of a successful migrating Open on a fresh database. With
\* a collection of n validly named scripts of unique ids whose SQL succeeds
\* (n = 0 also without a collection), an Open of an uninitialized database
\* that returns success returns a handle to a database with exactly n+1
\* applied records, the first the id-0 'init' record and one per script,
\* the effects of each script once, and schema.version the id of the last
\* script in filename order, "0" when n = 0. The Open does return success
\* when the environment holds, no script takes the reserved id 0 or
\* removes the schema.version row, and RequiredSchemaVersion is 0 or that
\* final version.
C7_FreshOpen ==
  \A c \in Callers :
    pc[c] = "done" /\ Fresh(c) /\ AllSucceed(cfg[c].Migrations) =>
      LET names == MatchingNames(cfg[c].Migrations) IN
      /\ result[c].err = "" =>
           /\ result[c].handle
           /\ Len(db.migs) = Cardinality(names) + 1
           /\ db.migs[1] = [id |-> 0, comment |-> InitComment, path |-> InitPath]
           /\ RecordedPaths(db) = names \cup {InitPath}
           /\ \A n \in names : n \in DOMAIN db.effects /\ db.effects[n] = 1
           /\ db.partial = {}
           /\ db.config["schema.version"] = FinalVersion(names)
      /\ /\ ~result[c].env /\ Admitted(c)
         /\ \A n \in names : IdOf(n) # 0 /\ SqlOf(n) = "ok"
         /\ cfg[c].RequiredSchemaVersion = 0
              \/ Itoa(cfg[c].RequiredSchemaVersion) = FinalVersion(names)
         => result[c].err = ""

\* a fresh database opened with two scripts: three records, version 3
C7_Witness ==
  \E c \in Callers :
    /\ Fresh(c) /\ pc[c] = "done" /\ result[c].err = ""
    /\ MatchingNames(cfg[c].Migrations) = {N1, N3}
    /\ Len(db.migs) = 3 /\ db.config["schema.version"] = Itoa(3)

\* C8: the postcondition of Create. Whenever Create returns success the
\* file exists at the path and is fully migrated: the database in it is
\* initialized and no script of the collection is pending; no handle is
\* returned and no connection is left open.
C8_CreatePostcondition ==
  \A c \in Callers :
    pc[c] = "done" /\ op[c] = "Create" /\ result[c].err = "" =>
      /\ fs[""] = "regular"
      /\ db.tables
      /\ MatchingNames(cfg[c].Migrations) \subseteq RecordedPaths(db)
      /\ ~result[c].handle /\ ~conn[c]

\* c calls Create on a path at which a regular file exists
CreateOnExisting(c) ==
  /\ pc[c] = "idle" /\ op'[c] = "Create" /\ target = "disk"
  /\ fs[""] = "regular"

\* C9: Create never overwrites. A Create on a path at which a file exists
\* returns at once, without a connection or a step of a migration, with
\* the 'file already exists' error, and leaves the files, the database and
\* the handles as they were; a Create that returned success has left a file
\* at the path, so that a second Create on it fails in this way.
C9_CreateNeverOverwrites ==
  /\ [][\A c \in Callers : CreateOnExisting(c) =>
          /\ pc'[c] = "done" /\ ~conn'[c]
          /\ result'[c].err = "file already exists" /\ ~result'[c].env
          /\ fs' = fs /\ db' = db /\ held' = held /\ tx' = tx
          /\ ran'[c] = <<>>]_vars
  /\ [](\A c \in Callers :
          pc[c] = "done" /\ op[c] = "Create" /\ result[c].err = "" => fs[""] = "regular")

\* a Create has failed on the file of a database that holds two applied
\* scripts
C9_Witness ==
  \E c \in Callers :
    /\ pc[c] = "done" /\ op[c] = "Create" /\ atCall[c].file = "regular"
    /\ result[c].err = "file already exists"
    /\ db.tables /\ Len(db.migs) = 3

\* c calls Open on a valid persistent path at which there is no file
OpenOnMissing(c) ==
  /\ pc[c] = "idle" /\ op'[c] = "Open" /\ target = "disk"
  /\ validatePersistentPath(cfg'[c].Path, fs) = ""
  /\ fs[""] = "absent"

\* C10: Open never creates a persistent database. An Open on a valid
\* persistent path at which no file exists returns at once, without a
\* connection, with the not-found error and no handle, and leaves the
\* files, the companions included, and the database as they were: still no
\* file is at the path (on which Status reports not initialized) and the
\* path still passes the checks of Create.
C10_OpenNeverCreates ==
  [][\A c \in Callers : OpenOnMissing(c) =>
       /\ pc'[c] = "done" /\ ~conn'[c]
       /\ result'[c].err = "database file not found"
       /\ ~result'[c].handle /\ ~result'[c].env
       /\ fs' = fs /\ db' = db /\ held' = held /\ tx' = tx
       /\ fs'[""] = "absent"
       /\ validatePersistentPath(cfg'[c].Path, fs') = ""]_vars

\* an Open with two pending scripts has failed on a missing file
C10_Witness ==
  \E c \in Callers :
    /\ pc[c] = "done" /\ op[c] = "Open" /\ target = "disk"
    /\ atCall[c].file = "absent"
    /\ result[c].err = "database file not found"
    /\ ~cfg[c].SkipMigrations
    /\ Cardinality(MatchingNames(cfg[c].Migrations)) = 2
    /\ fs[""] = "absent"

(***************************************************************************)
(* The file-lifecycle operations                                           *)
(***************************************************************************)

\* c calls operation name in this step (the call returns, or goes on to
\* openAndMigrate)
Calls(c, name) == pc[c] = "idle" /\ pc'[c] # "idle" /\ op'[c] = name

\* the path named by the call of c that starts in this step is a
\* persistent one that passes the checks, and on it sits what kinds says
CallOn(c, kinds) ==
  /\ cfg'[c].Path \notin MemoryPaths
  /\ validatePersistentPath(cfg'[c].Path, fs) = ""
  /\ Stat(cfg'[c].Path, "", fs) \in kinds

\* what the checks of Delete take for a missing file: nothing at the
\* name, or something that is neither a regular file nor a directory
Missing == {"absent", "other"}

\* C11: Delete of an absent database is a no-op success. A Delete on a
\* valid persistent path at which no database file exists returns no error
\* and leaves every file as it was; and a Delete that returned success
\* leaves the path valid and without a database file, so that a second
\* Delete on it succeeds as well.
C11_DeleteAbsentNoOp ==
  /\ [][\A c \in Callers :
          Calls(c, "Delete") /\ CallOn(c, Missing) =>
            /\ pc'[c] = "done" /\ result'[c].err = ""
            /\ fs' = fs /\ db' = db /\ held' = held]_vars
  /\ [](\A c \in Callers :
          pc[c] = "done" /\ op[c] = "Delete" /\ result[c].err = "" =>
            /\ validatePersistentPath(cfg[c].Path, fs) = ""
            /\ Stat(cfg[c].Path, "", fs) \in Missing)

\* a Delete has succeeded on a valid path at which there was no file, with
\* a stale companion file beside it
C11_Witness ==
  \E c \in Callers :
    /\ pc[c] = "done" /\ op[c] = "Delete" /\ result[c].err = ""
    /\ cfg[c].Path = DiskPath
    /\ atCall[c].file = "absent" /\ fs["-wal"] = "regular"

\* C12: Delete removes all three files. Whenever a Delete on a path that
\* passes validation has returned success, none of the database file, its
\* '-wal' companion and its '-shm' companion exists.
C12_DeleteRemovesAll ==
  \A c \in Callers :
    pc[c] = "done" /\ op[c] = "Delete" /\ result[c].err = "" =>
      \A x \in Suffixes : Stat(cfg[c].Path, x, fs) = "absent"

\* the error with which an operation turns an in-memory location down
MemoryError(name) ==
  CASE name = "Create" -> "Create requires a persistent path, not :memory:"
    [] name = "Delete" -> "cannot delete in-memory database"
    [] name = "Status" -> "cannot check status of in-memory database"

\* C13: in-memory targets are rejected by the file-lifecycle operations.
\* A Create, Delete or Status on ':memory:' or on a location that starts
\* with 'file::memory:' returns at once with the operation's own error for
\* in-memory locations (not an error of the path validation), without a
\* connection, and leaves the files, the database and the handles as they
\* were.
C13_MemoryRejected ==
  [][\A c \in Callers : \A name \in {"Create", "Delete", "Status"} :
       Calls(c, name) /\ cfg'[c].Path \in {MemPath} \cup MemUris =>
         /\ pc'[c] = "done" /\ ~conn'[c]
         /\ result'[c].err = MemoryError(name) /\ ~result'[c].handle
         /\ fs' = fs /\ db' = db /\ held' = held /\ tx' = tx]_vars

\* a Status on a 'file::memory:' location has been turned down while a
\* database file was on disk
C13_Witness ==
  \E c \in Callers :
    /\ pc[c] = "done" /\ op[c] = "Status" /\ cfg[c].Path \in MemUris
    /\ result[c].err = MemoryError("Status")
    /\ fs[""] = "regular"

(***************************************************************************)
(* The checks of Open                                                      *)
(***************************************************************************)

\* the spellings of "production" among the values of the variable
Spellings == {"production", "Production", "PRODUCTION"}

ProductionError == "in-memory database not allowed in production"

\* C14: production guard. An Open on ':memory:' returns at once with the
\* production error, without a connection or a step of a migration, when
\* the variable spells 'production' in any case of its letters and
\* AllowMemoryInProduction is false; with AllowMemoryInProduction true, or
\* with any other value of the variable, the call goes on to
\* openAndMigrate. An Open on a persistent location never returns the
\* production error, and goes on to openAndMigrate on a valid path with a
\* database file whatever the variable says.
C14_ProductionGuard ==
  [][\A c \in Callers : Calls(c, "Open") =>
       IF cfg'[c].Path = MemPath
         THEN IF cfg'[c].env \in Spellings /\ ~cfg'[c].AllowMemoryInProduction
                THEN /\ pc'[c] = "done" /\ ~conn'[c]
                     /\ result'[c].err = ProductionError /\ ~result'[c].handle
                     /\ db' = db /\ fs' = fs /\ held' = held /\ ran'[c] = <<>>
                ELSE pc'[c] = "openAndMigrate"
         ELSE /\ result'[c].err # ProductionError
              /\ CallOn(c, {"regular"}) => pc'[c] = "openAndMigrate"]_vars

\* an Open on ':memory:' has been turned down for the value PRODUCTION
\* while the program held a handle on an in-memory database
C14_Witness ==
  \E c \in Callers :
    /\ pc[c] = "done" /\ op[c] = "Open" /\ cfg[c].Path = MemPath
    /\ cfg[c].env = "PRODUCTION" /\ ~cfg[c].AllowMemoryInProduction
    /\ result[c].err = ProductionError
    /\ held = 1

\* the persistent paths that are absolute, that end in '.db', and that lie
\* in a directory
Absolute == {DiskPath, ExtPath, OrphanPath}
WithDbExt == {DiskPath, RelPath, OrphanPath}
InDirectory == {DiskPath, ExtPath}

\* the error of the first rule that path breaks, "" if it breaks none
FirstViolated(path, files) ==
  IF path \notin Absolute THEN "persistent database path must be absolute"
  ELSE IF path \notin WithDbExt THEN "expected .db extension"
  ELSE IF path = DiskPath /\ files[""] = "dir" THEN "path is a directory"
  ELSE IF path \notin InDirectory THEN "parent directory does not exist"
  ELSE ""

\* C15: persistent path validation. validatePersistentPath returns no
\* error exactly for a path that is absolute, has the '.db' extension, is
\* not a directory and lies in a directory, and else the error of the
\* first of these rules that is broken; a Create, Open or Delete on a
\* persistent path that breaks a rule returns that error at once, without a
\* connection, with every file, the database and the handles as they were.
C15_PathValidation ==
  /\ [](\A p \in Paths \ ({MemPath} \cup MemUris) :
          validatePersistentPath(p, fs) = FirstViolated(p, fs))
  /\ [][\A c \in Callers : \A name \in {"Create", "Open", "Delete"} :
          /\ Calls(c, name)
          /\ cfg'[c].Path \notin {MemPath} \cup MemUris
          /\ FirstViolated(cfg'[c].Path, fs) # ""
          => /\ pc'[c] = "done" /\ ~conn'[c]
             /\ result'[c].err = FirstViolated(cfg'[c].Path, fs)
             /\ ~result'[c].handle
             /\ fs' = fs /\ db' = db /\ held' = held /\ tx' = tx]_vars

\* a Delete has been turned down because the path is a directory, with a
\* companion file beside it that is still there
C15_Witness ==
  \E c \in Callers :
    /\ pc[c] = "done" /\ op[c] = "Delete" /\ cfg[c].Path = DiskPath
    /\ result[c].err = "path is a directory"
    /\ fs[""] = "dir" /\ fs["-wal"] = "regular"

(***************************************************************************)
(* The status                                                              *)
(***************************************************************************)

\* C16: Status of a missing database. A Status on a persistent location at
\* which no file exists returns at once, without an error and without a
\* connection, a status with IsInitialized false, and leaves the files as
\* they were: there is still no file at the location.
C16_StatusOfMissing ==
  [][\A c \in Callers :
       /\ Calls(c, "Status")
       /\ cfg'[c].Path \notin {MemPath} \cup MemUris
       /\ Stat(cfg'[c].Path, "", fs) = "absent"
       => /\ pc'[c] = "done" /\ ~conn'[c]
          /\ result'[c].err = "" /\ ~result'[c].env
          /\ ~result'[c].status.IsInitialized
          /\ fs' = fs /\ db' = db /\ held' = held
          /\ Stat(cfg'[c].Path, "", fs') = "absent"]_vars

\* a Status with a collection of two scripts has reported 'not
\* initialized' for a valid path at which there is no file
C16_Witness ==
  \E c \in Callers :
    /\ pc[c] = "done" /\ op[c] = "Status" /\ cfg[c].Path = DiskPath
    /\ cfg[c].Migrations = PlainEntries
    /\ atCall[c].file = "absent" /\ fs[""] = "absent"
    /\ result[c].err = "" /\ ~result[c].status.IsInitialized

\* C17: Status is read-only. From its call to its return a Status leaves
\* the database as it was at the call: the tables, the applied records,
\* every config row with schema.version, and what the user scripts made,
\* whether the file was uninitialized, initialized with scripts pending,
\* or fully migrated, and whatever SkipMigrations the caller gave.
C17_StatusReadOnly ==
  \A c \in Callers :
    pc[c] # "idle" /\ op[c] = "Status" =>
      /\ db = atCall[c].db
      /\ tx[c] = EmptyDB /\ ran[c] = <<>>
      /\ held = atCall[c].held

\* a Status has reported one pending script on a database with the init
\* record and one applied script, and has left the database as it was
C17_Witness ==
  \E c \in Callers :
    /\ pc[c] = "done" /\ op[c] = "Status" /\ result[c].err = ""
    /\ result[c].status.IsInitialized
    /\ Len(result[c].status.Pending) = 1
    /\ Len(db.migs) = 2
    /\ db = atCall[c].db

\* the paths of sequence q stand in the order of their bytes, each once
InFilenameOrder(q) ==
  \A i \in DOMAIN q : \A j \in DOMAIN q :
    i < j => StrLess(Bytes(q[i]), Bytes(q[j]))

\* C18: Status snapshot content. The status that a Status returns for an
\* initialized database has IsInitialized true, the stored schema.version
\* as SchemaVersion, every applied record and nothing else in Applied, and
\* in Pending exactly the paths of the scripts of the collection that have
\* no applied record with the same path, in filename order; Pending is
\* empty when no collection is given.
C18_StatusSnapshot ==
  \A c \in Callers :
    pc[c] = "done" /\ op[c] = "Status" /\ result[c].err = "" /\ db.tables =>
      LET status == result[c].status IN
      /\ status.IsInitialized
      /\ status.SchemaVersion = Atoi(db.config["schema.version"])
      /\ Range(status.Applied) = Range(db.migs)
      /\ Len(status.Applied) = Len(db.migs)
      /\ Range(status.Pending) = MatchingNames(cfg[c].Migrations) \ RecordedPaths(db)
      /\ InFilenameOrder(status.Pending)
      /\ cfg[c].Migrations = NoFS => status.Pending = <<>>

\* a Status has returned version 1, the init record and one applied
\* script, and one pending script out of a collection that also holds a
\* sub-directory
C18_Witness ==
  \E c \in Callers :
    /\ pc[c] = "done" /\ op[c] = "Status" /\ result[c].err = ""
    /\ cfg[c].Migrations = PlainEntries \cup {Entry(ND, TRUE)}
    /\ result[c].status.SchemaVersion = 1
    /\ Len(result[c].status.Applied) = 2
    /\ result[c].status.Pending = <<N3>>

(***************************************************************************)
(* The required version and the timeout                                    *)
(***************************************************************************)

\* the schema.version row of database d, -1 if d has no such row
StoredVersion(d) ==
  IF d.tables /\ "schema.version" \in DOMAIN d.config
    THEN Atoi(d.config["schema.version"])
    ELSE -1

\* the Open of c returns from the check of the required version in this
\* step, and not because the environment failed
ChecksRequired(c) ==
  pc[c] = "verify" /\ pc'[c] = "done" /\ op[c] = "Open" /\ ~result'[c].env

\* C19: required-version check. With RequiredSchemaVersion non-zero an
\* Open returns a handle only if the schema.version read after the
\* migration phase equals it: on a lower or a higher version the Open
\* fails with the version-mismatch error, on an uninitialized database
\* with the 'not initialized' error. With RequiredSchemaVersion 0 nothing
\* is compared and the Open returns a handle.
C19_RequiredVersion ==
  /\ [][\A c \in Callers : ChecksRequired(c) =>
          LET required == cfg[c].RequiredSchemaVersion IN
          IF required = 0 \/ StoredVersion(db) = required
            THEN result'[c].handle /\ result'[c].err = ""
          ELSE /\ ~result'[c].handle
               /\ held' = held
               /\ result'[c].err =
                    IF ~db.tables
                      THEN "schema version check failed: database not initialized"
                      ELSE "schema version mismatch"]_vars
  /\ [](\A c \in Callers :
          /\ pc[c] = "done" /\ op[c] = "Open" /\ result[c].handle
          /\ cfg[c].RequiredSchemaVersion # 0
          => StoredVersion(db) = cfg[c].RequiredSchemaVersion)

\* an Open that requires version 1 has failed with the mismatch error on a
\* database at version 3
C19_Witness ==
  \E c \in Callers :
    /\ pc[c] = "done" /\ op[c] = "Open"
    /\ cfg[c].RequiredSchemaVersion = 1
    /\ StoredVersion(db) = 3
    /\ result[c].err = "schema version mismatch" /\ ~result[c].env

\* the deadline of the run of c has passed with a script in flight, and
\* the call takes its next step
ExpiredInFlight(c) ==
  expired[c] /\ pc[c] \in ApplyPcs /\ pc'[c] # pc[c]

\* C20: migration timeout. The deadline of a migration run, once passed,
\* stays passed for the rest of the run. When it has passed while script k
\* is in flight, the next step of the call returns an error and no handle
\* from Open; the transaction of script k is rolled back, so that the
\* database is as it was when script k was taken up: no record and no
\* effect of k, the records and the schema.version of the scripts before k
\* kept; and no script after k is executed.
C20_MigrationTimeout ==
  /\ [][\A c \in Callers :
          expired[c] /\ pc'[c] \in MigratePcs => expired'[c]]_vars
  /\ [][\A c \in Callers : ExpiredInFlight(c) =>
          /\ pc'[c] = "done"
          /\ result'[c].err # "" /\ result'[c].env /\ ~result'[c].handle
          /\ held' = held /\ ~conn'[c]
          /\ Survives => db' = atScript'[c]
          /\ Current(c).Path \notin RecordedPaths(db')
          /\ Current(c).Path \notin DOMAIN db'.effects \cup db'.partial
          /\ Survives =>
               \A i \in 1..(idx[c] - 1) : scripts[c][i].Path \in RecordedPaths(db')
          /\ \A j \in (idx[c] + 1)..Len(scripts[c]) :
               scripts[c][j].Path \notin Range(ran'[c])]_vars

\* the deadline passed while the second script of an Open was in flight,
\* after its SQL was executed: the Open has failed, the first script is
\* recorded with version 1, and nothing of the second script is left
C20_Witness ==
  \E c \in Callers :
    /\ pc[c] = "done" /\ op[c] = "Open" /\ expired[c] /\ target = "disk"
    /\ result[c].err = "apply: record" /\ result[c].env
    /\ idx[c] = 2 /\ ran[c] = <<N1, N3>>
    /\ RecordedPaths(db) = {InitPath, N1}
    /\ StoredVersion(db) = 1
    /\ N3 \notin DOMAIN db.effects

(***************************************************************************)
(* The options of Open                                                     *)
(***************************************************************************)

\* C21: SkipMigrations. An Open with SkipMigrations set runs no part of
\* the migration runner: from its call to its return it is at no position
\* of migrate, opens no transaction, executes no script, and the database
\* (the tables, the applied records, schema.version and every other row)
\* stays as it was at the call, whether it was uninitialized or had
\* scripts of the supplied collection pending.
C21_SkipMigrations ==
  \A c \in Callers :
    pc[c] # "idle" /\ op[c] = "Open" /\ cfg[c].SkipMigrations =>
      /\ pc[c] \notin MigratePcs
      /\ db = atCall[c].db
      /\ tx[c] = EmptyDB /\ ran[c] = <<>> /\ scripts[c] = <<>>

\* an Open with SkipMigrations and a collection of two scripts has
\* returned a handle on a database that holds the init record and the
\* record of the first script only
C21_Witness ==
  \E c \in Callers :
    /\ pc[c] = "done" /\ op[c] = "Open" /\ cfg[c].SkipMigrations
    /\ result[c].handle /\ target = "disk"
    /\ cfg[c].Migrations = PlainEntries
    /\ RecordedPaths(db) = {InitPath, N1}

\* the app.version and db.created_at rows of an initialized database d
AppMetadata(d) == <<d.config["app.version"], d.config["db.created_at"]>>

\* C22: bootstrap metadata is written once. The database gets its
\* app.version and db.created_at rows when the transaction of the
\* infrastructure init commits: both are empty strings when the AppVersion
\* of that call is empty, and else app.version is that AppVersion and
\* db.created_at a time. No later step changes them, whatever AppVersion
\* the later calls give, and no transaction of a script writes them.
C22_MetadataOnce ==
  /\ [][db.tables /\ db'.tables => AppMetadata(db') = AppMetadata(db)]_vars
  /\ [][~db.tables /\ db'.tables =>
          \E c \in Callers :
            /\ pc[c] = "init_commit"
            /\ IF cfg[c].AppVersion = <<>>
                 THEN AppMetadata(db') = <<(<<>>), (<<>>)>>
                 ELSE /\ db'.config["app.version"] = cfg[c].AppVersion
                      /\ db'.config["db.created_at"] \in {Itoa(ts) : ts \in Times}]_vars
  /\ [](\A c \in Callers :
          pc[c] \in ApplyPcs /\ tx[c].tables => AppMetadata(tx[c]) = AppMetadata(db))

\* an Open with AppVersion v2 has gone through its scripts and returned a
\* handle on a database that was initialized with AppVersion v1, and the
\* database still says v1
C22_Witness ==
  \E c \in Callers :
    /\ pc[c] = "done" /\ op[c] = "Open" /\ result[c].handle /\ target = "disk"
    /\ cfg[c].AppVersion = <<118, 50>>
    /\ atCall[c].db.tables
    /\ db.config["app.version"] = <<118, 49>>
    /\ ran[c] # <<>>

(***************************************************************************)
(* In-memory databases                                                     *)
(***************************************************************************)

\* C23: every Open of ':memory:' starts on an uninitialized database: a
\* call that has returned a handle found no config table when it was made,
\* ran the infrastructure init, and applied every script of its collection
\* itself, whatever handles of earlier Open calls the program still holds.
C23_FreshMemory ==
  \A c \in Callers :
    /\ pc[c] = "done" /\ op[c] = "Open" /\ cfg[c].Path = MemPath
    /\ result[c].handle /\ ~cfg[c].SkipMigrations
    => /\ ~atCall[c].db.tables
       /\ RecordedPaths(db) = {InitPath} \cup Range(ran[c])

(***************************************************************************)
(* Two processes on one persistent file                                    *)
(***************************************************************************)

\* both callers are processes with the database file in place, empty
InitConcurrent ==
  /\ target = "disk"
  /\ active = Callers
  /\ fs = [x \in Suffixes |-> IF x = "" THEN "regular" ELSE "absent"]
  /\ db = EmptyDB
  /\ held = 0
  /\ op = [c \in Callers |-> ""]
  /\ pc = [c \in Callers |-> "idle"]
  /\ cfg = [c \in Callers |-> NoCfg]
  /\ conn = [c \in Callers |-> FALSE]
  /\ tx = [c \in Callers |-> EmptyDB]
  /\ scripts = [c \in Callers |-> <<>>]
  /\ applied = [c \in Callers |-> {}]
  /\ idx = [c \in Callers |-> 0]
  /\ result = [c \in Callers |-> NoResult]
  /\ atCall = [c \in Callers |-> NoSnapshot]
  /\ atScript = [c \in Callers |-> EmptyDB]
  /\ ran = [c \in Callers |-> <<>>]
  /\ expired = [c \in Callers |-> FALSE]

\* the collections of the two processes: both scripts, or the later one
\* only (a build that does not have the earlier script)
ConcurrentCollections == {PlainEntries, {Entry(N3, FALSE)}}

\* the calls in flight
InFlight == {c \in Callers : pc[c] # "idle"}

\* a call of Open with migrations by process c on the file, while the other
\* process may be inside its own call
OpenTogether(c) ==
  /\ c \in active /\ pc[c] = "idle"
  /\ held + Cardinality(InFlight) < MaxHeld
  /\ \E m \in ConcurrentCollections :
       OpenWith(c, Config(DiskPath, m, FALSE, <<>>, 0, <<"", FALSE>>))

NextConcurrent ==
  \/ \E c \in Callers : OpenTogether(c)
  \/ \E c \in Callers : Connect(c)
  \/ \E c \in Callers : MigrateStart(c)
  \/ \E c \in Callers : InitBegin(c)
  \/ \E c \in Callers : InitExec(c)
  \/ \E c \in Callers : InitRecord(c)
  \/ \E c \in Callers : InitMeta(c)
  \/ \E c \in Callers : InitCommit(c)
  \/ \E c \in Callers : Discover(c)
  \/ \E c \in Callers : Loop(c)
  \/ \E c \in Callers : ApplyBegin(c)
  \/ \E c \in Callers : ApplyExec(c)
  \/ \E c \in Callers : ApplyRecord(c)
  \/ \E c \in Callers : ApplyUpdate(c)
  \/ \E c \in Callers : ApplyCommit(c)
  \/ \E c \in Callers : Verify(c)
  \/ \E c \in Callers : Forget(c)
  \/ CloseHandle

SpecConcurrent == InitConcurrent /\ [][NextConcurrent]_vars

\* the rows of schema_migrations of d are those of e, in the order of
\* their commits, followed by the rows committed since
Extends(d, e) ==
  /\ Len(e.migs) <= Len(d.migs)
  /\ \A i \in DOMAIN e.migs : d.migs[i] = e.migs[i]

\* C24: two processes run Open with migrations on the same persistent file
\* at the same time. In every state that is reached, whatever the
\* interleaving: no two applied records have the same id or the same path;
\* the committed database holds the whole effect, once, of exactly the
\* scripts that have a record, and no partial effect; schema.version is
\* the id of the record committed last; a committed record is never lost;
\* every call that has returned gave a handle or an error, and of two calls
\* that executed the same script at most one returned a handle.
C24_ConcurrentRuns ==
  /\ [](\A i, j \in DOMAIN db.migs :
          i # j => db.migs[i].id # db.migs[j].id /\ db.migs[i].path # db.migs[j].path)
  /\ [](/\ db.partial = {}
        /\ DOMAIN db.effects = RecordedPaths(db) \ {InitPath}
        /\ \A n \in DOMAIN db.effects : db.effects[n] = 1)
  /\ [](db.tables => StoredVersion(db) = db.migs[Len(db.migs)].id)
  /\ [][db.tables => db'.tables /\ Extends(db', db)]_vars
  /\ [](\A c \in Callers :
          pc[c] = "done" =>
            /\ result[c].handle \/ result[c].err # ""
            /\ \A o \in Callers \ {c} :
                 pc[o] = "done" /\ result[c].handle /\ result[o].handle =>
                   Range(ran[c]) \cap Range(ran[o]) = {})

\* both processes executed the first script; one has its handle, the other
\* was turned down by the constraint on schema_migrations when it recorded
\* the script, and the record is there once
C24_Witness ==
  \E c, o \in Callers :
    /\ c # o /\ pc[c] = "done" /\ pc[o] = "done"
    /\ result[c].handle
    /\ result[o].err = "apply: record" /\ ~result[o].env
    /\ N1 \in Range(ran[c]) \cap Range(ran[o])
    /\ RecordedPaths(db) = {InitPath, N1, N3}

(***************************************************************************)
(* The bookkeeping of a database                                           *)
(***************************************************************************)

\* the ids of the rows of schema_migrations of d, in the order of their
\* commits
CommittedIds(d) == [i \in DOMAIN d.migs |-> d.migs[i].id]

\* C25: in every committed state of an initialized database schema.version
\* is the id of the record that was committed last (0 when there is the
\* init record only). A step that commits the record of a user script
\* leaves schema.version at the id of that record, and schema.version
\* changes in no step but one that commits one more record.
C25_VersionCoupling ==
  /\ [](db.tables =>
          /\ db.migs # <<>> /\ db.migs[1].id = 0
          /\ StoredVersion(db) = db.migs[Len(db.migs)].id)
  /\ [][db.tables /\ db'.tables /\ db'.migs # db.migs =>
          /\ Len(db'.migs) = Len(db.migs) + 1
          /\ StoredVersion(db') = db'.migs[Len(db'.migs)].id]_vars
  /\ [][db.tables /\ db'.tables /\ StoredVersion(db') # StoredVersion(db) =>
          /\ Len(db'.migs) = Len(db.migs) + 1
          /\ \A i \in DOMAIN db.migs : db.migs[i].id # StoredVersion(db')]_vars

\* the script of id 3 was committed before the script of id 1 (an Open
\* with the later script only, then one with both): schema.version is 1,
\* the id of the record committed last, and not the largest id
C25_Witness ==
  /\ db.tables
  /\ CommittedIds(db) = <<0, 3, 1>>
  /\ StoredVersion(db) = 1
  /\ \E c \in Callers : pc[c] = "done" /\ op[c] = "Open" /\ result[c].handle

\* positions of a call inside applySchemaInit
InitPcs == {"applySchemaInit", "init_exec", "init_record", "init_meta", "init_commit"}

\* C26: the infrastructure init is all or nothing. In every committed
\* state the database either has no schema_migrations and no config, or
\* has schema_migrations with the record of id 0 ('init', 'schema.sql')
\* and config with the rows schema.version, app.version and db.created_at,
\* one each. An init that fails leaves the database as it was, which is
\* uninitialized when the init had written; the tables appear in the
\* commit of an init and in no other step, and no init commits on a
\* database that has them.
C26_InitAtomic ==
  /\ [](IF db.tables
          THEN /\ db.migs # <<>>
               /\ db.migs[1] = [id |-> 0, comment |-> InitComment, path |-> InitPath]
               /\ \A i \in DOMAIN db.migs : i # 1 => db.migs[i].path # InitPath
               /\ DOMAIN db.config = ConfigKeys
          ELSE db.migs = <<>> /\ DOMAIN db.config = {})
  /\ [][\A c \in Callers :
          pc[c] \in InitPcs /\ pc'[c] = "done" =>
            /\ db' = db /\ result'[c].err # "" /\ ~result'[c].handle
            /\ pc[c] \in Writing => ~db'.tables]_vars
  /\ [][db'.tables # db.tables =>
          /\ ~db.tables
          /\ \E c \in Callers : pc[c] = "init_commit" /\ pc'[c] = "discover"]_vars
  /\ [][\A c \in Callers :
          pc[c] = "init_commit" /\ pc'[c] = "discover" => ~db.tables /\ db'.tables]_vars

\* the init of one process failed at its commit and left no table; the
\* Open of the other process then found the database uninitialized, ran
\* the init again and has its handle
C26_Witness ==
  \E c, o \in Callers :
    /\ pc[o] = "done" /\ result[o].err = "init schema: commit"
    /\ pc[c] = "done" /\ result[c].handle /\ ~atCall[c].db.tables
    /\ db.tables

(***************************************************************************)
(* A database whose schema.version cannot be read                          *)
(***************************************************************************)

\* the database as the init leaves it, without app metadata
InitializedDB ==
  InsertMigration(ExecSchemaSql(EmptyDB).d, 0, InitComment, InitPath).d

\* an initialized database after something else than this package (the
\* program through its handle, another tool) deleted the schema.version
\* row, or set it to the text 'x'
NoVersionRow ==
  [InitializedDB EXCEPT !.config = [k \in ConfigKeys \ {"schema.version"} |-> <<>>]]
BadVersionValue == [InitializedDB EXCEPT !.config["schema.version"] = <<120>>]

\* the file is there: empty, or with one of the two databases above
InitInconsistent ==
  /\ target = "disk"
  /\ active = {"c1"}
  /\ fs = [x \in Suffixes |-> IF x = "" THEN "regular" ELSE "absent"]
  /\ db \in {EmptyDB, NoVersionRow, BadVersionValue}
  /\ held = 0
  /\ op = [c \in Callers |-> ""]
  /\ pc = [c \in Callers |-> "idle"]
  /\ cfg = [c \in Callers |-> NoCfg]
  /\ conn = [c \in Callers |-> FALSE]
  /\ tx = [c \in Callers |-> EmptyDB]
  /\ scripts = [c \in Callers |-> <<>>]
  /\ applied = [c \in Callers |-> {}]
  /\ idx = [c \in Callers |-> 0]
  /\ result = [c \in Callers |-> NoResult]
  /\ atCall = [c \in Callers |-> NoSnapshot]
  /\ atScript = [c \in Callers |-> EmptyDB]
  /\ ran = [c \in Callers |-> <<>>]
  /\ expired = [c \in Callers |-> FALSE]

NextInconsistent ==
  \/ \E c \in Callers : Open(c)
  \/ \E c \in Callers : Status(c)
  \/ \E c \in Callers : GetStatus(c)
  \/ \E c \in Callers : Connect(c)
  \/ \E c \in Callers : MigrateStart(c)
  \/ \E c \in Callers : InitBegin(c)
  \/ \E c \in Callers : InitExec(c)
  \/ \E c \in Callers : InitRecord(c)
  \/ \E c \in Callers : InitMeta(c)
  \/ \E c \in Callers : InitCommit(c)
  \/ \E c \in Callers : Discover(c)
  \/ \E c \in Callers : Loop(c)
  \/ \E c \in Callers : ApplyBegin(c)
  \/ \E c \in Callers : ApplyExec(c)
  \/ \E c \in Callers : ApplyRecord(c)
  \/ \E c \in Callers : ApplyUpdate(c)
  \/ \E c \in Callers : ApplyCommit(c)
  \/ \E c \in Callers : Verify(c)
  \/ \E c \in Callers : Forget(c)
  \/ CloseHandle

SpecInconsistent == InitInconsistent /\ [][NextInconsistent]_vars

\* d has the config table, and no schema.version row or one that is not
\* the text of an integer
Inconsistent(d) ==
  /\ d.tables
  /\ \/ "schema.version" \notin DOMAIN d.config
     \/ ~AtoiOk(d.config["schema.version"])

\* the call of c returns in this step with an error and nothing else
ReturnsError(c) ==
  /\ pc'[c] = "done" /\ result'[c].err # "" /\ ~result'[c].handle
  /\ result'[c].status = NoStatus

\* C27: only a missing config table counts as uninitialized. On a database
\* that has the config table but no schema.version row, or a value there
\* that is no integer, the run of migrate, the check of the required
\* version and Status each return an error; no call gets into the init or
\* to the scripts, and the database stays as it is.
C27_Inconsistent ==
  /\ [](Inconsistent(db) =>
          \A c \in Callers :
            pc[c] \notin InitPcs \cup ApplyPcs \cup {"discover", "loop"})
  /\ [][Inconsistent(db) => db' = db]_vars
  /\ [][\A c \in Callers :
          Inconsistent(db) /\ pc[c] # pc'[c] /\
          (\/ pc[c] = "migrate"
           \/ pc[c] = "getStatus"
           \/ pc[c] = "verify" /\ cfg[c].RequiredSchemaVersion # 0)
          => ReturnsError(c)]_vars

\* an Open with both plain scripts has come back from migrate with the
\* error on the value 'x' of schema.version, and ran nothing
C27_Witness ==
  \E c \in Callers :
    /\ pc[c] = "done" /\ op[c] = "Open" /\ ~cfg[c].SkipMigrations
    /\ cfg[c].Migrations = PlainEntries
    /\ result[c].err = "invalid schema.version"
    /\ db = BadVersionValue /\ ran[c] = <<>>

\* the call of c is inside applyMigration for the script named name
Applying(c, name) == pc[c] \in ApplyPcs /\ scripts[c][idx[c]].Path = name

\* C28: a user script whose id is 0 is never recorded and never changes
\* schema.version. Its applyMigration ends in an error, with the database
\* as it was before the script (its SQL rolled back); no committed state
\* has a record or an effect of the script, and the record of id 0 stays
\* the one of the init.
C28_IdZeroScript ==
  /\ [](/\ N0 \notin RecordedPaths(db)
        /\ N0 \notin DOMAIN db.effects
        /\ db.tables => db.migs[1] = [id |-> 0, comment |-> InitComment, path |-> InitPath])
  /\ [][\A c \in Callers :
          Applying(c, N0) =>
            /\ db' = db \/ (target = "mem" /\ db' = EmptyDB)
            /\ pc'[c] \notin ApplyPcs =>
                 pc'[c] = "done" /\ result'[c].err # "" /\ ~result'[c].handle]_vars
  /\ [][\A c \in Callers :
          Applying(c, N0) /\ pc[c] = "apply_record" =>
            pc'[c] = "done" /\ result'[c].err = "apply: record"]_vars

\* an Open with the script of id 0 and the two plain scripts has failed on
\* the record of the id-0 script, which ran first: the database has the
\* init record only
C28_Witness ==
  \E c \in Callers :
    /\ pc[c] = "done" /\ op[c] = "Open" /\ target = "disk"
    /\ cfg[c].Migrations = PlainEntries \cup {Entry(N0, FALSE)}
    /\ result[c].err = "apply: record" /\ ~result[c].env
    /\ ran[c] = <<N0>>
    /\ RecordedPaths(db) = {InitPath} /\ StoredVersion(db) = 0

(***************************************************************************)
(* Delete, file by file                                                    *)
(***************************************************************************)

\* the files on which the loop of a Delete failed in this step: a directory
\* is no regular file, and a regular file that is still there was not
\* removed
FailedOn == {x \in Suffixes : fs[x] = "dir" \/ (fs[x] = "regular" /\ fs'[x] # "absent")}

\* the first of "", "-shm", "-wal" in the set S
FirstOf(S) ==
  DeleteOrder[CHOOSE i \in DOMAIN DeleteOrder :
                /\ DeleteOrder[i] \in S
                /\ \A j \in 1..(i - 1) : DeleteOrder[j] \notin S]

C30_FailedCreateStays ==
  /\ [][\A c \in Callers :
          op[c] = "Create" /\ conn[c] /\ pc'[c] = "done" /\ result'[c].err # "" =>
            /\ fs'[""] = "regular"
            /\ db' = db]_vars
  /\ [][\A c \in Callers :
          Calls(c, "Create") /\ cfg'[c].Path = DiskPath /\ fs[""] = "regular" =>
            /\ pc'[c] = "done" /\ result'[c].err = "file already exists"
            /\ db' = db /\ fs' = fs]_vars

\* a Create made the file, committed the init and the first script, and
\* failed on the SQL of the second one: the file is there with the init
\* and the first script recorded
C30_Witness ==
  \E c \in Callers :
    /\ pc[c] = "done" /\ op[c] = "Create" /\ atCall[c].file = "absent"
    /\ result[c].err = "apply: exec" /\ ~result[c].env
    /\ ran[c] = <<N1, N2>>
    /\ fs[""] = "regular"
    /\ RecordedPaths(db) = {InitPath, N1} /\ StoredVersion(db) = 1

(***************************************************************************)
(* schema.version over the life of a database                              *)
(***************************************************************************)

\* the greatest id among the rows of schema_migrations of d
GreatestId(d) ==
  LET ids == {d.migs[i].id : i \in DOMAIN d.migs}
  IN CHOOSE m \in ids : \A k \in ids : k <= m

\* C31: schema.version is monotone. While a database lives, over runs
\* whose collections may gain files between them (also a file with an
\* older timestamp than a script that is applied), schema.version never
\* decreases, and after every successful run it is the greatest id among
\* the applied records.
C31_VersionMonotone ==
  /\ [][db.tables /\ db'.tables => StoredVersion(db') >= StoredVersion(db)]_vars
  /\ [](\A c \in Callers :
          /\ pc[c] = "done" /\ op[c] \in {"Open", "Create"} /\ result[c].err = ""
          /\ db.tables
          => StoredVersion(db) = GreatestId(db))

(***************************************************************************)
(* The required version without migrations                                 *)
(***************************************************************************)

Renamed(s, d) ==
  /\ s.Path \notin RecordedPaths(d)
  /\ \E i \in DOMAIN d.migs : d.migs[i].id = s.ID

\* C33: whether a script is applied is decided by its path, whether it can
\* be recorded by its id. A discovered script without a record under its
\* path whose id has a record under another file name is taken as pending
\* and executed; the insert of its record fails, the transaction is rolled
\* back, the run returns an error and the database is as before. In every
\* state no two applied records have the same id and no two the same path.
C33_PathDecidesIdGuards ==
  /\ [](\A i, j \in DOMAIN db.migs :
          i # j => db.migs[i].id # db.migs[j].id /\ db.migs[i].path # db.migs[j].path)
  /\ [][\A c \in Callers :
          /\ pc[c] = "loop" /\ idx[c] <= Len(scripts[c])
          /\ Renamed(scripts[c][idx[c]], db)
          => pc'[c] = "applyMigration" /\ idx'[c] = idx[c]]_vars
  /\ [][\A c \in Callers :
          pc[c] \in ApplyPcs /\ Renamed(scripts[c][idx[c]], db) =>
            /\ db' = AfterClose(c, db) \/ db' = db
            /\ pc'[c] \in ApplyPcs \/ (pc'[c] = "done" /\ result'[c].err # "")
            /\ pc[c] = "apply_record" =>
                 /\ pc'[c] = "done" /\ result'[c].err = "apply: record"
                 /\ tx'[c] = EmptyDB]_vars

\* the script of id 3 was applied as '..._b.sql'; an Open with the file
\* '..._c.sql' of the same id executed it, failed on its record, and left
\* the one record of id 3
C33_Witness ==
  \E c \in Callers :
    /\ pc[c] = "done" /\ op[c] = "Open" /\ target = "disk"
    /\ cfg[c].Migrations = {Entry(N3c, FALSE)}
    /\ ran[c] = <<N3c>>
    /\ result[c].err = "apply: record" /\ ~result[c].env
    /\ db = atCall[c].db
    /\ RecordedPaths(db) = {InitPath, N3} /\ StoredVersion(db) = 3

====
